---- MODULE Spec2Model ----
(***************************************************************************)
(* Model of hlandau/service (v3): the lifecycle supervisor                 *)
(* (Info.runInteractively, handler.Execute), the Manager implementation    *)
(* (ihandler) and the UNIX privilege-drop pipeline (daemon.DropPrivileges  *)
(* and the packages it calls).                                             *)
(*                                                                         *)
(* Strings that the code parses (Config.UID, Config.GID) and paths that    *)
(* the code inspects (Config.Chroot, DefaultChroot, the chroot anchor) are *)
(* sequences of one-character strings.  An error value is a string: ""     *)
(* is nil, anything else names the error.                                  *)
(***************************************************************************)
EXTENDS Integers, Sequences, FiniteSets, TLC

\* ------------------------------------------------------------------------
\* Bounds of the exploration
\* ------------------------------------------------------------------------

\* Manager calls the payload may make in one run.
MaxCalls == 3

\* SIGINT/SIGTERM deliveries (UNIX) or SCM control requests (Windows) per run.
MaxSignals == 2

\* Manager calls the payload may make in a run of the privilege-drop
\* exploration (SpecDrop), which enumerates many more configurations.
MaxDropCalls == 2

\* Processes that use the PID file path (SpecPid).
MaxProcs == 2

\* OpenPIDFile calls the processes make in total in a run of SpecPid.
MaxOpens == 3

\* ------------------------------------------------------------------------
\* strconv: decimal parsing and formatting
\* ------------------------------------------------------------------------

Digits == <<"0", "1", "2", "3", "4", "5", "6", "7", "8", "9">>

IsDigit(c) == \E i \in 1..10 : Digits[i] = c

DigitVal(c) == (CHOOSE i \in 1..10 : Digits[i] = c) - 1

\* Largest value of a 31-bit unsigned integer (the bitSize given to ParseUint).
MaxUint31 == 2147483647

RECURSIVE ParseDigits(_, _)
\* The value of the digits s appended to acc, or -1 when it exceeds 31 bits.
ParseDigits(s, acc) ==
  IF s = <<>> THEN acc
  ELSE LET d == DigitVal(Head(s))
       IN IF acc > (MaxUint31 - d) \div 10 THEN -1
          ELSE ParseDigits(Tail(s), acc * 10 + d)


\* Mutant of ParseUint31: the 31-bit range check is missing.
ParseUint31_NoCap(s) ==
  IF s = <<>> \/ \E i \in 1..Len(s) : ~IsDigit(s[i])
  THEN [ok |-> FALSE, n |-> 0]
  ELSE [ok |-> TRUE, n |-> ParseDigits(s, 0)]

\* strconv.ParseUint(s, 10, 31): digits only, non-empty, value below 2^31.
ParseUint31(s) ==
  IF s = <<>> \/ \E i \in 1..Len(s) : ~IsDigit(s[i])
  THEN [ok |-> FALSE, n |-> 0]
  ELSE IF ParseDigits(s, 0) < 0
       THEN [ok |-> FALSE, n |-> 0]
       ELSE [ok |-> TRUE, n |-> ParseDigits(s, 0)]

RECURSIVE FormatInt(_)
\* strconv.FormatInt(n, 10) for n >= 0.
FormatInt(n) ==
  IF n < 10 THEN <<Digits[n + 1]>>
  ELSE Append(FormatInt(n \div 10), Digits[(n % 10) + 1])

\* ------------------------------------------------------------------------
\* passwd: the system's user and group databases and the lookups on them
\* ------------------------------------------------------------------------

NameBob == <<"b", "o", "b">>
NameZed == <<"z", "e", "d">>

\* /etc/passwd of the modelled host: name, uid, primary gid.
PasswdDB == { [name |-> <<"r", "o", "o", "t">>, uid |-> 0, gid |-> 0],
              [name |-> NameBob, uid |-> 7, gid |-> 8] }

\* /etc/group of the modelled host: name, gid, supplementary gids it implies.
GroupDB == { [name |-> <<"r", "o", "o", "t">>, gid |-> 0, extra |-> <<>>],
             [name |-> <<"b", "g">>, gid |-> 8, extra |-> <<9>>] }

parseUserName(name) ==
  IF \E e \in PasswdDB : e.name = name
  THEN [err |-> "", n |-> (CHOOSE e \in PasswdDB : e.name = name).uid]
  ELSE [err |-> "cannot convert username to uid", n |-> 0]

parseGroupName(name) ==
  IF \E e \in GroupDB : e.name = name
  THEN [err |-> "", n |-> (CHOOSE e \in GroupDB : e.name = name).gid]
  ELSE [err |-> "cannot convert group name to gid", n |-> 0]

ParseUID(s) ==
  LET p == ParseUint31(s)
  IN IF ~p.ok THEN parseUserName(s) ELSE [err |-> "", n |-> p.n]

ParseGID(s) ==
  LET p == ParseUint31(s)
  IN IF ~p.ok THEN parseGroupName(s) ELSE [err |-> "", n |-> p.n]

GetGIDForUID(s) ==
  LET u == ParseUID(s)
  IN IF u.err # "" THEN [err |-> u.err, n |-> 0]
     ELSE IF \E e \in PasswdDB : e.uid = u.n
          THEN [err |-> "", n |-> (CHOOSE e \in PasswdDB : e.uid = u.n).gid]
          ELSE [err |-> "cannot get GID for UID", n |-> 0]

\* fails: the backend lookup reports an error (environment).
GetExtraGIDs(gid, fails) ==
  IF fails THEN [err |-> "cannot retrieve additional groups list", gids |-> <<>>]
  ELSE IF \E e \in GroupDB : e.gid = gid
       THEN [err |-> "", gids |-> (CHOOSE e \in GroupDB : e.gid = gid).extra]
       ELSE [err |-> "", gids |-> <<>>]

\* ------------------------------------------------------------------------
\* The process's credentials and the system calls that change them
\* ------------------------------------------------------------------------

\* The build without cgo (passwd-nc.go): names cannot be resolved, the
\* primary group of a uid is taken to be the gid of the same number, and
\* there are no supplementary groups.
errNoCgo == "because this binary was built without cgo, UIDs/GIDs must be specified numerically and not as names"

\* A build without cgo that resolves names all the same.
parseUserNameNoCgo_Resolves(name) == parseUserName(name)

parseUserNameNoCgo(name) == [err |-> errNoCgo, n |-> 0]

parseGroupNameNoCgo(name) == [err |-> errNoCgo, n |-> 0]

ParseUIDNoCgo(s) ==
  LET p == ParseUint31(s)
  IN IF ~p.ok THEN parseUserNameNoCgo(s) ELSE [err |-> "", n |-> p.n]

ParseGIDNoCgo(s) ==
  LET p == ParseUint31(s)
  IN IF ~p.ok THEN parseGroupNameNoCgo(s) ELSE [err |-> "", n |-> p.n]

getGIDForUIDNoCgo(s) ==
  LET u == ParseUIDNoCgo(s)
  IN IF u.err # "" THEN [err |-> u.err, n |-> 0] ELSE [err |-> "", n |-> u.n]

getExtraGIDsNoCgo(gid) == [err |-> "", gids |-> <<>>]

\* The passwd functions of the build in use.  cgo: built with cgo.
ParseUIDBuild(cgo, s) == IF cgo THEN ParseUID(s) ELSE ParseUIDNoCgo(s)

ParseGIDBuild(cgo, s) == IF cgo THEN ParseGID(s) ELSE ParseGIDNoCgo(s)

GetGIDForUIDBuild(cgo, s) ==
  IF cgo THEN GetGIDForUID(s) ELSE getGIDForUIDNoCgo(s)

GetExtraGIDsBuild(cgo, gid, fails) ==
  IF cgo THEN GetExtraGIDs(gid, fails) ELSE getExtraGIDsNoCgo(gid)

CapNames == {"setuid", "setgid", "sys_chroot", "setpcap", "net_bind"}

\* One entry of the log of operations a DropPrivileges call performs:
\* the call, its id argument, its list argument, the error it returned.
Op(name, arg, list, err) ==
  [op |-> name, arg |-> arg, list |-> list, err |-> err]

\* The kernel's setuid fixup (securebits at their default): when the real,
\* effective and saved uid were not all non-zero and all become non-zero,
\* the capability sets are cleared.
FixupCaps(p, u) ==
  IF 0 \in {p.ruid, p.euid, p.suid} /\ u # 0 THEN {} ELSE p.caps

Setgroups(p, gids) ==
  IF "setgid" \in p.caps
  THEN [err |-> "", p |-> [p EXCEPT !.groups = gids]]
  ELSE [err |-> "EPERM", p |-> p]

Setresgid(p, g) ==
  IF "setgid" \in p.caps \/ g \in {p.rgid, p.egid, p.sgid}
  THEN [err |-> "", p |-> [p EXCEPT !.rgid = g, !.egid = g, !.sgid = g]]
  ELSE [err |-> "EPERM", p |-> p]

Setresuid(p, u) ==
  IF "setuid" \in p.caps \/ u \in {p.ruid, p.euid, p.suid}
  THEN [err |-> "",
        p |-> [p EXCEPT !.ruid = u, !.euid = u, !.suid = u,
                        !.caps = FixupCaps(p, u)]]
  ELSE [err |-> "EPERM", p |-> p]

Setuid(p, u) ==
  IF "setuid" \in p.caps
  THEN [err |-> "",
        p |-> [p EXCEPT !.ruid = u, !.euid = u, !.suid = u,
                        !.caps = FixupCaps(p, u)]]
  ELSE IF u \in {p.ruid, p.suid}
       THEN [err |-> "", p |-> [p EXCEPT !.euid = u]]
       ELSE [err |-> "EPERM", p |-> p]

Setgid(p, g) ==
  IF "setgid" \in p.caps
  THEN [err |-> "", p |-> [p EXCEPT !.rgid = g, !.egid = g, !.sgid = g]]
  ELSE IF g \in {p.rgid, p.sgid}
       THEN [err |-> "", p |-> [p EXCEPT !.egid = g]]
       ELSE [err |-> "EPERM", p |-> p]

\* caps.HaveAny
HaveAny(p) == p.caps # {}

\* caps.Drop; fails: cap_init/cap_set_proc reports an error (environment).
Drop(p, fails) ==
  IF fails THEN [err |-> "cannot drop caps", p |-> p]
  ELSE [err |-> "", p |-> [p EXCEPT !.caps = {}]]

isRoot(p) == p.ruid = 0 \/ p.euid = 0 \/ p.rgid = 0 \/ p.egid = 0

\* Mutant of IsRoot: only the capabilities are looked at.
IsRoot_CapsOnly(p) == HaveAny(p)

IsRoot(p) == HaveAny(p) \/ isRoot(p)

\* bansuid.BanSuid: NO_NEW_PRIVS first, then SECUREBITS (needs CAP_SETPCAP);
\* the first failure ends it.  Returns the world with the log extended.
BanSuid(w, nnpFails) ==
  IF nnpFails
  THEN [w EXCEPT !.ops = Append(@, Op("no_new_privs", 0, <<>>, "EINVAL"))]
  ELSE LET w1 == [w EXCEPT !.p.nnp = TRUE,
                           !.ops = Append(@, Op("no_new_privs", 1, <<>>, ""))]
       IN IF "setpcap" \in w1.p.caps
          THEN [w1 EXCEPT !.p.secbits = TRUE,
                          !.ops = Append(@, Op("securebits", 1, <<>>, ""))]
          ELSE [w1 EXCEPT !.ops = Append(@, Op("securebits", 0, <<>>, "EPERM"))]

\* ------------------------------------------------------------------------
\* chroot
\* ------------------------------------------------------------------------

PathNone == <<>>
PathRoot == <<"/">>
PathEmpty == <<"/", "v">>

IsAbs(path) == Len(path) > 0 /\ path[1] = "/"

\* filepath.Join(anchor, rel) for an absolute anchor and a clean rel.
Join(anchor, rel) ==
  IF rel = <<>> THEN anchor
  ELSE IF anchor = PathRoot THEN anchor \o rel
       ELSE anchor \o <<"/">> \o rel

\* chroot.Chroot: refuses non-absolute paths, then the system call (which
\* needs CAP_SYS_CHROOT and an existing directory), then moves the anchor.
Chroot(w, path, missing) ==
  IF ~IsAbs(path)
  THEN [err |-> "chroot path must be absolute", w |-> w]
  ELSE LET e == IF "sys_chroot" \notin w.p.caps THEN "EPERM"
                ELSE IF missing THEN "ENOENT" ELSE ""
           w1 == [w EXCEPT !.ops = Append(@, Op("chroot", 0, <<>>, e))]
       IN IF e # "" THEN [err |-> e, w |-> w1]
          ELSE [err |-> "", w |-> [w1 EXCEPT !.anchor = Join(@, Tail(path))]]


\* Mutant of tryChroot: "/" is not taken for the empty path.
tryChroot_RootIsPath(w, path0, env) ==
  LET w0 == [w EXCEPT !.ops = Append(@, Op("tryChroot", 0, <<>>, ""))]
  IN IF path0 = PathNone THEN [err |-> "", w |-> w0]
     ELSE Chroot([w0 EXCEPT !.ops = Append(@, Op("resolver", 0, <<>>, ""))],
                 path0, env.chrootMissing)

tryChroot(w, path0, env) ==
  LET path == IF path0 = PathRoot THEN PathNone ELSE path0
      w0 == [w EXCEPT !.ops = Append(@, Op("tryChroot", 0, <<>>, ""))]
  IN IF path = PathNone THEN [err |-> "", w |-> w0]
     ELSE Chroot([w0 EXCEPT !.ops = Append(@, Op("resolver", 0, <<>>, ""))],
                 path, env.chrootMissing)

\* ------------------------------------------------------------------------
\* daemon: the privilege-drop orchestrator
\* ------------------------------------------------------------------------

\* The value of an expression with its intermediate results bound once:
\* The({ e : x \in {v} }) is e with x standing for the value of v.
The(S) == CHOOSE r \in S : TRUE

\* One system call of the orchestrator: its effect on the credentials and
\* its entry in the log.  r is the call's result [err, p].
Step(w, name, arg, list, r) ==
  [err |-> r.err,
   w |-> [w EXCEPT !.p = r.p, !.ops = Append(@, Op(name, arg, list, r.err))]]

\* Mutant of tryDropPrivileges: the user id is changed before the group id.
tryDropPrivileges_UidFirst(w, UID, GID, gids, env) ==
  IF UID <= 0 \/ GID <= 0
  THEN [err |-> "invalid UID/GID specified so cannot setuid/setgid", w |-> w]
  ELSE The({
    IF s1.err # "" THEN s1
    ELSE The({
      IF s2.err # "" THEN s2
      ELSE Step(s2.w, "setresgid", GID, <<>>, Setresgid(s2.w.p, GID))
      : s2 \in {Step(s1.w, "setresuid", UID, <<>>, Setresuid(s1.w.p, UID))} })
    : s1 \in {Step(w, "setgroups", GID, gids, Setgroups(w.p, gids))} })

tryDropPrivileges(w, UID, GID, gids, env) ==
  IF UID <= 0 \/ GID <= 0
  THEN [err |-> "invalid UID/GID specified so cannot setuid/setgid", w |-> w]
  ELSE The({
    IF s1.err # "" THEN s1
    ELSE The({
      IF s2.err # "" THEN s2
      ELSE Step(s2.w, "setresuid", UID, <<>>, Setresuid(s2.w.p, UID))
      : s2 \in {Step(s1.w, "setresgid", GID, <<>>, Setresgid(s1.w.p, GID))} })
    : s1 \in {Step(w, "setgroups", GID, gids, Setgroups(w.p, gids))} })

\* Mutant of dropPrivilegesWithGroups: a failed chroot ends the drop.
dropPrivilegesWithGroups_StopOnChrootErr(w1, UID, GID, gids, chrootDir, env) ==
  The({
    IF UID > 0 /\ c.err = ""
    THEN The({ [chrootErr |-> c.err, err |-> d.err, w |-> d.w]
               : d \in {tryDropPrivileges(c.w, UID, GID, gids, env)} })
    ELSE [chrootErr |-> c.err, err |-> "", w |-> c.w]
    : c \in {tryChroot(w1, chrootDir, env)} })

\* The part of dropPrivileges after the extra groups are known.
dropPrivilegesWithGroups(w1, UID, GID, gids, chrootDir, env) ==
  The({
    IF UID > 0
    THEN The({ [chrootErr |-> c.err, err |-> d.err, w |-> d.w]
               : d \in {tryDropPrivileges(c.w, UID, GID, gids, env)} })
    ELSE [chrootErr |-> c.err, err |-> "", w |-> c.w]
    : c \in {tryChroot(w1, chrootDir, env)} })


\* Mutant of dropPrivileges: the primary GID is not appended to the list.
dropPrivileges_NoPrimary(w, UID, GID, chrootDir, env) ==
  IF (UID <= 0) # (GID <= 0)
  THEN [chrootErr |-> "",
        err |-> "either both or neither UID and GID must be set to positive values",
        w |-> w]
  ELSE IF UID > 0
  THEN The({
    IF g.err # ""
    THEN [chrootErr |-> "", err |-> g.err,
          w |-> [w EXCEPT !.ops = Append(@, Op("getextragids", GID, <<>>, g.err))]]
    ELSE dropPrivilegesWithGroups(
           [w EXCEPT !.ops = Append(@, Op("getextragids", GID, <<>>, ""))],
           UID, GID, g.gids, chrootDir, env)
    : g \in {GetExtraGIDsBuild(w.cgo, GID, env.extraGidsFail)} })
  ELSE dropPrivilegesWithGroups(w, UID, GID, <<>>, chrootDir, env)

dropPrivileges(w, UID, GID, chrootDir, env) ==
  IF (UID <= 0) # (GID <= 0)
  THEN [chrootErr |-> "",
        err |-> "either both or neither UID and GID must be set to positive values",
        w |-> w]
  ELSE IF UID > 0
  THEN The({
    IF g.err # ""
    THEN [chrootErr |-> "", err |-> g.err,
          w |-> [w EXCEPT !.ops = Append(@, Op("getextragids", GID, <<>>, g.err))]]
    ELSE dropPrivilegesWithGroups(
           [w EXCEPT !.ops = Append(@, Op("getextragids", GID, <<>>, ""))],
           UID, GID, Append(g.gids, GID), chrootDir, env)
    : g \in {GetExtraGIDsBuild(w.cgo, GID, env.extraGidsFail)} })
  ELSE dropPrivilegesWithGroups(w, UID, GID, <<>>, chrootDir, env)

\* ensureNoPrivs: the verification.  Setuid(0) and Setgid(0) are really
\* called, so a call that unexpectedly succeeds changes the credentials.
ensureNoPrivs(w) ==
  LET r1 == Setuid(w.p, 0)
      r2 == Setgid(w.p, 0)
      e == IF IsRoot(w.p) THEN "still have non-zero UID or GID or capabilities"
           ELSE IF r1.err = "" THEN "setuid(0) still succeeded"
           ELSE IF r2.err = "" THEN "setgid(0) still succeeded"
           ELSE ""
      p1 == IF IsRoot(w.p) THEN w.p
            ELSE IF r1.err = "" THEN r1.p
            ELSE r2.p
  IN [err |-> e,
      w |-> [w EXCEPT !.p = p1, !.ops = Append(@, Op("verify", 0, <<>>, e))]]

\* daemon.DropPrivileges(UID, GID, chrootDir) (chrootErr, err)
daemonDropPrivileges(w, UID, GID, chrootDir, env) ==
  The({
    IF d.err # ""
    THEN [chrootErr |-> d.chrootErr, err |-> "dropPrivileges failed", w |-> d.w]
    ELSE The({
      [chrootErr |-> d.chrootErr,
       err |-> IF v.err # "" THEN "ensure no privs failed" ELSE "",
       w |-> v.w]
      : v \in {ensureNoPrivs(
                 [d.w EXCEPT !.ops = Append(@, Op("chdir", 0, <<>>, ""))])} })
    : d \in {dropPrivileges(w, UID, GID, chrootDir, env)} })

\* ------------------------------------------------------------------------
\* service (UNIX): ihandler.DropPrivileges
\* ------------------------------------------------------------------------


\* ------------------------------------------------------------------------
\* daemon (service.v1): the orchestrator with its own hardening steps
\* ------------------------------------------------------------------------

\* setSecurebits: prctl(PR_SET_SECUREBITS), which needs CAP_SETPCAP.
setSecurebits(w) ==
  IF "setpcap" \in w.p.caps
  THEN [err |-> "",
        w |-> [w EXCEPT !.p.secbits = TRUE,
                        !.ops = Append(@, Op("securebits", 1, <<>>, ""))]]
  ELSE [err |-> "cannot set SECUREBITS",
        w |-> [w EXCEPT !.ops = Append(@, Op("securebits", 0, <<>>, "EPERM"))]]

\* platformPreDropPrivileges: the securebits, the error ignored.
platformPreDropPrivileges(w) == [err |-> "", w |-> setSecurebits(w).w]

\* setNoNewPrivs: prctl(PR_SET_NO_NEW_PRIVS); fails: the kernel refuses it.
setNoNewPrivs(w, fails) ==
  IF fails
  THEN [err |-> "cannot set NO_NEW_PRIVS",
        w |-> [w EXCEPT !.ops = Append(@, Op("no_new_privs", 0, <<>>, "EINVAL"))]]
  ELSE [err |-> "",
        w |-> [w EXCEPT !.p.nnp = TRUE,
                        !.ops = Append(@, Op("no_new_privs", 1, <<>>, ""))]]

platformPostDropPrivileges(w, fails) == setNoNewPrivs(w, fails)

errZeroUID == "Can't drop privileges to UID/GID0"

\* tryDropPrivileges of service.v1
tryDropPrivilegesV1(w, UID, GID, gids) ==
  IF UID = -1
  THEN [err |-> "invalid UID specified so cannot setuid", w |-> w]
  ELSE The({
    IF s1.err # "" THEN s1
    ELSE The({
      IF s2.err # "" THEN s2
      ELSE The({
        IF s3.err # "" THEN s3
        ELSE [err |-> IF UID = 0 \/ GID = 0 THEN errZeroUID ELSE "", w |-> s3.w]
        : s3 \in {Step(s2.w, "setresuid", UID, <<>>, Setresuid(s2.w.p, UID))} })
      : s2 \in {Step(s1.w, "setresgid", GID, <<>>, Setresgid(s1.w.p, GID))} })
    : s1 \in {Step(w, "setgroups", GID, gids, Setgroups(w.p, gids))} })

\* The part of dropPrivileges of service.v1 after the extra groups are
\* known: the chroot, the identity change and, when that failed for another
\* reason than a zero id, the capability drop whose result replaces the
\* error.
dropPrivilegesWithGroupsV1(w1, UID, GID, gids, chrootDir, env) ==
  The({
    The({
      IF d.err = "" \/ d.err = errZeroUID \/ ~w1.cgo
      THEN [chrootErr |-> c.err, err |-> d.err, w |-> d.w]
      ELSE The({
        [chrootErr |-> c.err,
         err |-> IF s.err # "" THEN "cannot drop caps" ELSE "",
         w |-> s.w]
        : s \in {Step(d.w, "capsdrop", 0, <<>>, Drop(d.w.p, env.capDropFail))} })
      : d \in {tryDropPrivilegesV1(c.w, UID, GID, Append(gids, GID))} })
    : c \in {tryChroot(w1, chrootDir, env)} })

\* dropPrivileges of service.v1
dropPrivilegesV1(w, UID, GID, chrootDir, env) ==
  IF (UID = -1) # (GID = -1)
  THEN [chrootErr |-> "", err |-> "either both or neither UID and GID must be -1",
        w |-> w]
  ELSE IF isRoot(w.p) /\ (UID <= 0 \/ GID <= 0)
  THEN [chrootErr |-> "", err |-> "must specify UID/GID when running as root",
        w |-> w]
  ELSE IF UID # -1
  THEN The({
    IF g.err # ""
    THEN [chrootErr |-> "", err |-> g.err,
          w |-> [w EXCEPT !.ops = Append(@, Op("getextragids", GID, <<>>, g.err))]]
    ELSE dropPrivilegesWithGroupsV1(
           [w EXCEPT !.ops = Append(@, Op("getextragids", GID, <<>>, ""))],
           UID, GID, g.gids, chrootDir, env)
    : g \in {GetExtraGIDsBuild(w.cgo, GID, env.extraGidsFail)} })
  ELSE dropPrivilegesWithGroupsV1(w, UID, GID, <<>>, chrootDir, env)

\* ensureNoPrivs of service.v1: the ids, setuid(0), setgid(0), then the
\* capabilities (caps.EnsureNoCaps).
ensureNoPrivsV1(w) ==
  The({
    [err |-> IF isRoot(w.p) THEN "still have non-zero UID or GID"
             ELSE IF r.u.err = "" THEN "setuid(0) still succeeded"
             ELSE IF r.g.err = "" THEN "setgid(0) still succeeded"
             ELSE IF HaveAny(w.p) THEN "capabilities are available"
             ELSE "",
     w |-> [w EXCEPT !.p = IF isRoot(w.p) THEN w.p
                           ELSE IF r.u.err = "" THEN r.u.p
                           ELSE r.g.p,
                     !.ops = Append(@, Op("verify", 0, <<>>,
                               IF isRoot(w.p) \/ r.u.err = "" \/ r.g.err = ""
                                  \/ HaveAny(w.p)
                               THEN "failed" ELSE ""))]]
    : r \in {[u |-> Setuid(w.p, 0), g |-> Setgid(w.p, 0)]} })

\* The mandatory steps of DropPrivileges of service.v1: dropPrivileges,
\* chdir("/") and ensureNoPrivs.
mandatoryStepsV1(w, UID, GID, chrootDir, env) ==
  The({
    IF d.err # ""
    THEN [chrootErr |-> d.chrootErr, err |-> "dropPrivileges failed", w |-> d.w]
    ELSE The({
      [chrootErr |-> d.chrootErr,
       err |-> IF v.err # "" THEN "ensure no privs failed" ELSE "",
       w |-> v.w]
      : v \in {ensureNoPrivsV1(
                 [d.w EXCEPT !.ops = Append(@, Op("chdir", 0, <<>>, ""))])} })
    : d \in {dropPrivilegesV1(w, UID, GID, chrootDir, env)} })

\* daemon.DropPrivileges(UID, GID, chrootDir) (chrootErr, err) of
\* service.v1: setRlimits (nothing), platformPreDropPrivileges, the
\* mandatory steps, platformPostDropPrivileges.
daemonDropPrivilegesV1(w, UID, GID, chrootDir, env) ==
  The({
    IF m.err # "" THEN m
    ELSE The({
      [chrootErr |-> m.chrootErr,
       err |-> IF q.err # "" THEN "platformPostDropPrivileges failed" ELSE "",
       w |-> q.w]
      : q \in {platformPostDropPrivileges(m.w, env.nnpFail)} })
    : m \in {mandatoryStepsV1(platformPreDropPrivileges(w).w,
                              UID, GID, chrootDir, env)} })

\* The environment's answers to the calls one DropPrivileges makes.
Envs == [extraGidsFail : BOOLEAN, chrootMissing : BOOLEAN,
         capDropFail : BOOLEAN, nnpFail : BOOLEAN]

\* A result of the Manager's DropPrivileges: the error returned, the
\* handler's dropped flag, the Info it may have rewritten, and the world.
DropResult(err, dropped, inf, w) ==
  [err |-> err, dropped |-> dropped, info |-> inf, w |-> w]

\* Mutant of dropCapsAndCheck: the root check is missing.
dropCapsAndCheck_NoRootCheck(inf, w, c) ==
  IF c.err # "" THEN DropResult("cannot drop caps", FALSE, inf, w)
  ELSE DropResult("", TRUE, inf, w)

\* The end of ihandler.DropPrivileges: the capability drop and the root
\* check.  c is the result of caps.Drop.
dropCapsAndCheck(inf, w, c) ==
  IF c.err # "" THEN DropResult("cannot drop caps", FALSE, inf, w)
  ELSE IF ~inf.AllowRoot /\ IsRoot(w.p)
  THEN DropResult("Daemon must not run as root or with capabilities",
                  FALSE, inf, w)
  ELSE DropResult("", TRUE, inf, w)

\* Mutant of dropWithIds: a chroot configured without a privilege drop is
\* not refused.
dropWithIds_NoChrootCheck(inf, w, uid, gid, chrootPath, env) ==
  IF (uid <= 0) # (gid <= 0)
  THEN DropResult("Either both or neither of the UID and GID must be positive",
                  FALSE, inf, w)
  ELSE The({
    IF uid > 0 /\ d.err # ""
    THEN DropResult("Failed to drop privileges", FALSE, inf, d.w)
    ELSE IF uid > 0 /\ d.chrootErr # ""
            /\ inf.Chroot # PathNone /\ inf.Chroot # PathRoot
    THEN DropResult("Failed to chroot", FALSE, inf, d.w)
    ELSE The({ dropCapsAndCheck(inf, s.w, s)
               : s \in {Step(d.w, "capsdrop", 0, <<>>,
                             Drop(d.w.p, env.capDropFail))} })
    : d \in {IF uid > 0
             THEN daemonDropPrivileges(w, uid, gid, chrootPath, env)
             ELSE [chrootErr |-> "", err |-> "", w |-> w]} })

\* The part of ihandler.DropPrivileges after the identity has been parsed:
\* the uid/gid check, the orchestrator, the chroot rules, the capability
\* drop and the root check.
dropWithIds(inf, w, uid, gid, chrootPath, env) ==
  IF (uid <= 0) # (gid <= 0)
  THEN DropResult("Either both or neither of the UID and GID must be positive",
                  FALSE, inf, w)
  ELSE The({
    IF uid > 0 /\ d.err # ""
    THEN DropResult("Failed to drop privileges", FALSE, inf, d.w)
    ELSE IF uid > 0 /\ d.chrootErr # ""
            /\ inf.Chroot # PathNone /\ inf.Chroot # PathRoot
    THEN DropResult("Failed to chroot", FALSE, inf, d.w)
    ELSE IF ~(uid > 0) /\ inf.Chroot # PathNone /\ inf.Chroot # PathRoot
    THEN DropResult("Must use privilege dropping to use chroot", FALSE, inf, d.w)
    ELSE The({ dropCapsAndCheck(inf, s.w, s)
               : s \in {Step(d.w, "capsdrop", 0, <<>>,
                             Drop(d.w.p, env.capDropFail))} })
    : d \in {IF uid > 0
             THEN daemonDropPrivileges(w, uid, gid, chrootPath, env)
             ELSE [chrootErr |-> "", err |-> "", w |-> w]} })

\* The configuration as ihandler.DropPrivileges rewrites it: the GID
\* resolved from the UID (g is that lookup's result) and the default
\* chroot path filled in.
resolveInfo(inf, g) ==
  [inf EXCEPT
     !.GID = IF inf.UID # <<>> /\ inf.GID = <<>> THEN FormatInt(g.n) ELSE @,
     !.DefaultChroot = IF @ = PathNone THEN PathRoot ELSE @]

\* The part of ihandler.DropPrivileges after the setuid ban and the GID
\* lookup: parsing the identity and choosing the chroot path.
dropResolved(inf2, w0, env) ==
  The({
    IF u.err # "" THEN DropResult(u.err, FALSE, inf2, w0)
    ELSE The({
      IF gg.err # "" THEN DropResult(gg.err, FALSE, inf2, w0)
      ELSE dropWithIds(inf2, w0, u.n, gg.n,
                       IF inf2.Chroot = PathNone THEN inf2.DefaultChroot
                       ELSE inf2.Chroot,
                       env)
      : gg \in {IF inf2.UID # <<>> THEN ParseGIDBuild(w0.cgo, inf2.GID)
                ELSE [err |-> "", n |-> -1]} })
    : u \in {IF inf2.UID # <<>> THEN ParseUIDBuild(w0.cgo, inf2.UID)
             ELSE [err |-> "", n |-> -1]} })

\* Mutant of DropPrivilegesUnix: the early return on dropped is missing.
DropPrivilegesUnix_NoEarlyReturn(dropped, inf, w, env) ==
  The({
    IF x.g.err # "" THEN DropResult(x.g.err, FALSE, inf, x.w)
    ELSE The({ dropResolved(inf2, x.w, env) : inf2 \in {resolveInfo(inf, x.g)} })
    : x \in {[w |-> IF ~inf.NoBanSuid THEN BanSuid(w, env.nnpFail) ELSE w,
              g |-> IF inf.UID # <<>> /\ inf.GID = <<>>
                    THEN GetGIDForUIDBuild(w.cgo, inf.UID)
                    ELSE [err |-> "", n |-> 0]]} })

\* ihandler.DropPrivileges (UNIX).  dropped: the handler's dropped flag.
DropPrivilegesUnix(dropped, inf, w, env) ==
  IF dropped THEN DropResult("", dropped, inf, w)
  ELSE The({
    IF x.g.err # "" THEN DropResult(x.g.err, FALSE, inf, x.w)
    ELSE The({ dropResolved(inf2, x.w, env) : inf2 \in {resolveInfo(inf, x.g)} })
    : x \in {[w |-> IF ~inf.NoBanSuid THEN BanSuid(w, env.nnpFail) ELSE w,
              g |-> IF inf.UID # <<>> /\ inf.GID = <<>>
                    THEN GetGIDForUIDBuild(w.cgo, inf.UID)
                    ELSE [err |-> "", n |-> 0]]} })

\* ihandler.DropPrivileges and handler.DropPrivileges on Windows.
DropPrivilegesWindows(dropped, inf, w, env) == DropResult("", TRUE, inf, w)

\* ------------------------------------------------------------------------
\* State
\* ------------------------------------------------------------------------

VARIABLES
  platform,          \* "unix" (runInteractively) or "windows" (handler.Execute)
  info,              \* Info and its Config: AllowRoot, DefaultChroot, NoBanSuid,
                     \* systemd, UID, GID, Chroot
  w,                 \* p: the process's credentials; anchor: the chroot anchor;
                     \* ops: what the latest DropPrivileges call performed
  dropped,           \* ihandler.dropped / handler.dropped
  started,           \* ihandler.started / Execute's started
  stopping,          \* ihandler.stopping / Execute's stopping
  status,            \* ihandler.status / handler.status
  stopChan,          \* "open" or "closed"
  statusNotifyChan,  \* number of queued notifications (capacity 1)
  startedChan,       \* number of queued started events (capacity 1)
  sig,               \* queued signals (UNIX) or the SCM request offered (Windows)
  supPc,             \* supervisor: "select", a case being handled, "exited"
  payloadPc,         \* payload goroutine: "running", "sending", "done"
  retErr,            \* the error RunFunc returned
  exitErr,           \* the error the supervisor loop received
  exitCode,          \* -1 while the process runs, then the exit code
  crashed,           \* "" or the panic that aborted the process
  procTitle,         \* last process title set
  sdReady,           \* a datagram with READY=1 has been sent
  sdStatus,          \* STATUS of the last datagram that carried one
  scmState,          \* last state published to the service control manager
  callsLeft,         \* Manager calls the payload may still make
  sigsLeft,          \* signals or control requests the OS may still deliver
  lastErr,           \* error returned by the latest DropPrivileges call
  lastStopRead,      \* what the latest read of StopChan observed
  fsPath,            \* inode the PID file path refers to, 0: no such file
  fsData,            \* content of each inode
  fsLock,            \* the process holding the write lock on each inode, or 0
  nextIno,           \* the inode number the next creation gets
  proc,              \* per process: position in the PID file protocol (pc),
                     \* descriptor being opened (f), and the package's
                     \* pidFile and pidFileName
  mainProc,          \* per process of a start-up: position in serviceMain,
                     \* os.Args, Config, systemd, stdio, exit code
  runLog             \* the calls the RunFunc made from NewFunc has made, in
                     \* order, each with the error it returned

vars == <<platform, info, w, dropped, started, stopping, status, stopChan,
          statusNotifyChan, startedChan, sig, supPc, payloadPc, retErr,
          exitErr, exitCode, crashed, procTitle, sdReady, sdStatus, scmState,
          callsLeft, sigsLeft, lastErr, lastStopRead,
          fsPath, fsData, fsLock, nextIno, proc, mainProc, runLog>>

pidVars == <<fsPath, fsData, fsLock, nextIno, proc>>

\* Capacity of the channel given to signal.Notify.
SigChanCap == 1

\* Capacity of statusNotifyChan and of startedChan.
NotifyChanCap == 1

Statuses == {"a", "b"}

Signals == {"SIGINT", "SIGTERM"}

ControlRequests == {"Interrogate", "Stop", "Shutdown", "Pause"}

Alive == crashed = "" /\ exitCode = -1

\* ------------------------------------------------------------------------
\* Initial states
\* ------------------------------------------------------------------------

Cred(uid, euid, gid, egid, caps) ==
  [ruid |-> uid, euid |-> euid, suid |-> euid,
   rgid |-> gid, egid |-> egid, sgid |-> egid,
   caps |-> caps, groups |-> <<>>, nnp |-> FALSE, secbits |-> FALSE]

Conf(allowRoot, defaultChroot, systemd, uid, gid, chroot) ==
  [AllowRoot |-> allowRoot, DefaultChroot |-> defaultChroot,
   NoBanSuid |-> FALSE, systemd |-> systemd,
   UID |-> uid, GID |-> gid, Chroot |-> chroot]

World(p) == [p |-> p, anchor |-> PathRoot, ops |-> <<>>, cgo |-> TRUE]

\* The state runInteractively (or Execute) has built when its loop starts.
InitHandler(maxCalls, maxSigs) ==
  /\ dropped = FALSE /\ started = FALSE /\ stopping = FALSE
  /\ status = "" /\ stopChan = "open"
  /\ statusNotifyChan = 0 /\ startedChan = 0 /\ sig = <<>>
  /\ supPc = "select" /\ payloadPc = "running"
  /\ retErr = "" /\ exitErr = "" /\ exitCode = -1 /\ crashed = ""
  /\ procTitle = "" /\ sdReady = FALSE /\ sdStatus = ""
  /\ scmState = IF platform = "windows" THEN "StartPending" ELSE ""
  /\ callsLeft = maxCalls /\ sigsLeft = maxSigs
  /\ lastErr = "" /\ lastStopRead = FALSE

\* ------------------------------------------------------------------------
\* pidfile: the file system as seen through one path, and the processes
\* that run the PID file protocol on it
\* ------------------------------------------------------------------------

\* Processes that may contend for the PID file.
Procs == 1..MaxProcs

\* The process whose supervisor the lifecycle describes.
Self == 1

\* os.Getpid() of each process.
Getpid(p) == 40 + p

\* Inode numbers: the file that may exist at the start, and one for every
\* later creation (a path is created anew only after a close unlinked it).
Inodes == 1..(1 + MaxProcs * MaxOpens)

\* The path given to OpenPIDFile.
PidFilePath == <<"/", "r", "/", "p">>

\* fmt.Sprintf("%d\n", pid)
PidString(pid) == FormatInt(pid) \o <<"\n">>

\* f.WriteString on a file just opened without O_TRUNC or O_APPEND: the
\* bytes go to offset 0 and whatever lay beyond them stays.
WriteString(old, s) == s \o SubSeq(old, Len(s) + 1, Len(old))

\* A process that has no PID file open and is not opening one.
IdleProc ==
  [pc |-> "idle", f |-> 0, pidFile |-> 0, pidFileName |-> PathNone,
   err |-> "", opens |-> 0, closes |-> 0]

\* No file at the path, no process has anything open.
NoPidFile ==
  /\ fsPath = 0
  /\ fsData = [i \in Inodes |-> <<>>]
  /\ fsLock = [i \in Inodes |-> 0]
  /\ nextIno = 1
  /\ proc = [p \in Procs |-> IdleProc]

\* Process p has the PID file open: OpenPIDFile returned success.
HasPidFile(p) == proc[p].pidFile # 0

\* Self has opened the PID file at the free path: what OpenPIDFile leaves.
PidFileOpened ==
  /\ fsPath = 1
  /\ fsData = [i \in Inodes |-> IF i = 1 THEN PidString(Getpid(Self)) ELSE <<>>]
  /\ fsLock = [i \in Inodes |-> IF i = 1 THEN Self ELSE 0]
  /\ nextIno = 2
  /\ proc = [p \in Procs |->
               IF p = Self
               THEN [IdleProc EXCEPT !.pidFile = 1, !.pidFileName = PidFilePath,
                                     !.opens = 1]
               ELSE IdleProc]

\* Closing a descriptor of inode i drops the locks process p holds on i.
Unlock(locks, i, p) == IF locks[i] = p THEN [locks EXCEPT ![i] = 0] ELSE locks

\* ------------------------------------------------------------------------
\* Start-up (Info.serviceMain): the processes of one invocation
\* ------------------------------------------------------------------------

\* Arguments after argv[0] in an invocation.
MaxArgs == 2

\* Processes the host lets one invocation create (StartProcess fails beyond).
MaxMainProcs == 3

MainProcs == 1..MaxMainProcs

forkedArg == "$*_FORKED_*$"

\* exepath.Abs: the absolute path of the executable.
exepathAbs == "/bin/svc"

\* What argv[0] and the other arguments of an invocation can be.
Argv0s == {"svc", exepathAbs}
ArgWords == {"a", forkedArg}

SeqsUpTo(S, n) == UNION { [1..k -> S] : k \in 0..n }

InitialArgs == { <<a0>> \o t : a0 \in Argv0s, t \in SeqsUpTo(ArgWords, MaxArgs) }

Contains(args, word) == \E i \in 1..Len(args) : args[i] = word

\* Config as the flags of the invocation set it; PIDFile: a path is given.
MainConfigs == [Fork : BOOLEAN, Daemon : BOOLEAN, Stderr : BOOLEAN,
                PIDFile : BOOLEAN]

\* Descriptors 0, 1, 2 as the process inherited them.
InheritedStdio == [stdin |-> "inherited", stdout |-> "inherited",
                   stderr |-> "inherited"]


\* Package sdnotify before its first call.  inited: sdNotifyInited; socket:
\* sdNotifySocket is not nil; dials: calls of net.DialUnix made; sent:
\* datagrams written to the socket.
NoSdNotify == [inited |-> FALSE, socket |-> FALSE, dials |-> 0, sent |-> 0]

\* sdNotifySocket.Write(state)
SdWrite(sd, writeOk) ==
  IF writeOk THEN [sd |-> [sd EXCEPT !.sent = @ + 1], err |-> ""]
  ELSE [sd |-> sd, err |-> "write"]

\* sdnotify.SdNotify(state), with NOTIFY_SOCKET as env names it.
SdNotify(sd, env, writeOk) ==
  IF ~sd.inited
  THEN IF env = "unset"
       THEN [sd |-> [sd EXCEPT !.inited = TRUE], err |-> "No socket"]
       ELSE IF env = "dead"
       THEN [sd |-> [sd EXCEPT !.inited = TRUE, !.dials = @ + 1],
             err |-> "dial"]
       ELSE SdWrite([sd EXCEPT !.inited = TRUE, !.dials = @ + 1,
                               !.socket = TRUE], writeOk)
  ELSE IF ~sd.socket THEN [sd |-> sd, err |-> "No socket"]
  ELSE SdWrite(sd, writeOk)

\* A process slot not in use. execArgs: the argv the process was executed
\* with; Args: os.Args; notifySocket: NOTIFY_SOCKET names a live socket;
\* probed, daemonized, pidFileOpened, payload: the step has been done;
\* payloadArgs: os.Args when RunFunc started; notifyEnv: what NOTIFY_SOCKET
\* names ("unset", a "dead" or a "live" socket); sdNotify: the variables of
\* package sdnotify.
NoMainProc ==
  [pc |-> "none", execArgs |-> <<>>, Args |-> <<>>,
   Config |-> [Fork |-> FALSE, Daemon |-> FALSE, Stderr |-> FALSE,
               PIDFile |-> FALSE],
   notifySocket |-> FALSE, systemd |-> FALSE, probed |-> FALSE,
   stdio |-> InheritedStdio, daemonized |-> FALSE, pidFileOpened |-> FALSE,
   pidFileOpen |-> FALSE, payload |-> FALSE, payloadArgs |-> <<>>,
   exitCode |-> -1, parent |-> 0, children |-> 0,
   notifyEnv |-> "unset", sdNotify |-> NoSdNotify]

\* A process at the start of serviceMain.
NewMainProc(args, config, socket, parent) ==
  [NoMainProc EXCEPT !.pc = "main", !.execArgs = args, !.Args = args,
                     !.Config = config, !.notifySocket = socket,
                     !.parent = parent]

\* The start-up is not part of the run.
NoStartUp == mainProc = [p \in MainProcs |-> NoMainProc]

\* A Fork that recognises the child but leaves the sentinel in os.Args.
Fork_NoStrip(args, startOk) ==
  IF args[Len(args)] = forkedArg
  THEN [isParent |-> FALSE, err |-> "", Args |-> args, newArgs |-> <<>>]
  ELSE IF startOk
  THEN [isParent |-> TRUE, err |-> "", Args |-> args,
        newArgs |-> <<exepathAbs>> \o Tail(args) \o <<forkedArg>>]
  ELSE [isParent |-> TRUE, err |-> "StartProcess", Args |-> args,
        newArgs |-> <<>>]

\* A Fork that does not look for the sentinel.
Fork_NoSentinelCheck(args, startOk) ==
  IF startOk
  THEN [isParent |-> TRUE, err |-> "", Args |-> args,
        newArgs |-> <<exepathAbs>> \o Tail(args) \o <<forkedArg>>]
  ELSE [isParent |-> TRUE, err |-> "StartProcess", Args |-> args,
        newArgs |-> <<>>]

\* daemon.Fork on os.Args = args. startOk: os.StartProcess succeeds.
\* Args: os.Args afterwards; newArgs: the argv of the child started.
Fork(args, startOk) ==
  IF args[Len(args)] = forkedArg
  THEN [isParent |-> FALSE, err |-> "",
        Args |-> SubSeq(args, 1, Len(args) - 1), newArgs |-> <<>>]
  ELSE IF startOk
  THEN [isParent |-> TRUE, err |-> "", Args |-> args,
        newArgs |-> <<exepathAbs>> \o Tail(args) \o <<forkedArg>>]
  ELSE [isParent |-> TRUE, err |-> "StartProcess", Args |-> args,
        newArgs |-> <<>>]

\* A decision that ignores systemd.
daemonizeDecision_NoSystemd(daemon, stderr, systemd) ==
  [daemonize |-> daemon, keepStderr |-> stderr]

\* serviceMain's decision: daemonize and keepStderr from Config.Daemon,
\* Config.Stderr and info.systemd.
daemonizeDecision(daemon, stderr, systemd) ==
  IF ~daemon /\ systemd
  THEN [daemonize |-> TRUE, keepStderr |-> TRUE]
  ELSE [daemonize |-> daemon, keepStderr |-> stderr]

\* daemon.Daemonize(keepStderr): descriptors 0 and 1 and, unless keepStderr,
\* 2 are redirected to /dev/null.
Daemonize(stdio, keepStderr) ==
  [stdin |-> "null", stdout |-> "null",
   stderr |-> IF keepStderr THEN stdio.stderr ELSE "null"]

RootCred == Cred(0, 0, 0, 0, CapNames)
UserCred == Cred(5, 5, 5, 5, {})

\* Runs explored by Spec: a few configurations, the whole lifecycle.
LifecycleRuns ==
  { <<Conf(FALSE, PathNone, sd, NameBob, <<>>, PathEmpty), RootCred>> :
        sd \in BOOLEAN }
  \cup { <<Conf(ar, PathNone, FALSE, <<>>, <<>>, PathNone), RootCred>> :
        ar \in BOOLEAN }
  \cup { <<Conf(FALSE, PathNone, TRUE, <<>>, <<>>, c), UserCred>> :
        c \in {PathNone, PathEmpty} }
  \cup { <<Conf(FALSE, PathNone, FALSE, <<>>, <<>>, PathNone),
           Cred(5, 5, 5, 5, {"net_bind"})>> }
  \cup { <<Conf(FALSE, PathNone, FALSE, NameBob, <<>>, PathNone), RootCred>> }

\* The runs configured with a PID file: serviceMain opened it before the
\* loop.  One chroots and changes identity, one changes identity only, one
\* does neither.
PidFileRuns ==
  { <<Conf(FALSE, PathNone, FALSE, NameBob, <<>>, PathEmpty), RootCred>>,
    <<Conf(FALSE, PathNone, FALSE, NameBob, <<>>, PathNone), RootCred>>,
    <<Conf(FALSE, PathNone, TRUE, <<>>, <<>>, PathNone), UserCred>> }

\* A run of the build without cgo configured with a user name.
NoCgoRuns == { <<Conf(FALSE, PathNone, FALSE, NameBob, <<>>, PathNone), RootCred>> }

\* On Windows nothing of the configuration or the credentials is used.
WindowsRun == <<Conf(FALSE, PathNone, FALSE, <<>>, <<>>, PathNone), UserCred>>

Init ==
  /\ platform \in {"unix", "windows"}
  /\ \/ \E r \in IF platform = "unix" THEN LifecycleRuns ELSE {WindowsRun} :
          /\ info = r[1] /\ w = World(r[2])
          /\ IF platform = "unix" /\ r \in PidFileRuns THEN PidFileOpened
             ELSE NoPidFile
     \/ /\ platform = "unix"
        /\ \E r \in NoCgoRuns :
             info = r[1] /\ w = [World(r[2]) EXCEPT !.cgo = FALSE]
        /\ NoPidFile
  /\ InitHandler(MaxCalls, MaxSignals)
  /\ NoStartUp
  /\ runLog = <<>>

\* Runs explored by SpecDrop: every combination of configuration and
\* starting credentials, the payload's DropPrivileges and SetStarted calls.
DropUIDs == {<<>>, <<"0">>, <<"7">>, NameBob, NameZed}
DropGIDs == {<<>>, <<"0">>, <<"8">>}
DropChroots == {PathNone, PathRoot, PathEmpty}
DropDefaultChroots == {PathNone, PathEmpty}
DropCapSets == {{}, CapNames, {"net_bind"}, {"setgid"}, {"setuid", "setgid"}}
DropIds == {<<0, 0>>, <<5, 5>>, <<5, 0>>}

InitDrop ==
  /\ platform = "unix"
  /\ \E ar \in BOOLEAN, dc \in DropDefaultChroots, u \in DropUIDs,
        g \in DropGIDs, c \in DropChroots :
       info = Conf(ar, dc, FALSE, u, g, c)
  /\ \E ui \in DropIds, gi \in DropIds, cs \in DropCapSets :
       w = World(Cred(ui[1], ui[2], gi[1], gi[2], cs))
  /\ InitHandler(MaxDropCalls, 0)
  /\ NoPidFile
  /\ NoStartUp
  /\ runLog = <<>>

\* ------------------------------------------------------------------------
\* The payload (RunFunc): any sequence of Manager calls, then a return
\* ------------------------------------------------------------------------

PayloadRunning == Alive /\ payloadPc = "running"


\* Mutant of NonBlockingSend: the item is queued whatever the channel holds.
NonBlockingSend_Unbounded(n, cap) == n + 1

\* A non-blocking send (select with default) on a buffered channel holding
\* n items.
NonBlockingSend(n, cap) == IF n < cap THEN n + 1 ELSE n

\* A non-blocking receive (select with default).
NonBlockingRecv(n) == IF n > 0 THEN n - 1 ELSE n

DropPrivileges(d, inf, world, env) ==
  IF platform = "unix" THEN DropPrivilegesUnix(d, inf, world, env)
  ELSE DropPrivilegesWindows(d, inf, world, env)

\* smgr.DropPrivileges()
PayloadDropPrivileges ==
  /\ PayloadRunning /\ callsLeft > 0
  /\ \E env \in Envs :
       \E r \in {DropPrivileges(dropped, info, [w EXCEPT !.ops = <<>>], env)} :
          /\ dropped' = r.dropped
          /\ info' = r.info
          /\ w' = r.w
          /\ lastErr' = r.err
  /\ callsLeft' = callsLeft - 1
  /\ UNCHANGED <<platform, started, stopping, status, stopChan,
                 statusNotifyChan, startedChan, sig, supPc, payloadPc, retErr,
                 exitErr, exitCode, crashed, procTitle, sdReady, sdStatus,
                 scmState, sigsLeft, lastStopRead>>
  /\ UNCHANGED <<pidVars, mainProc, runLog>>

\* Mutant of PayloadSetStarted: the dropped check is missing.
PayloadSetStarted_NoCheck ==
  /\ PayloadRunning /\ callsLeft > 0
  /\ startedChan' = NonBlockingSend(startedChan, NotifyChanCap)
  /\ callsLeft' = callsLeft - 1
  /\ UNCHANGED <<platform, info, w, dropped, started, stopping, status,
                 stopChan, statusNotifyChan, sig, supPc, payloadPc, retErr,
                 exitErr, exitCode, crashed, procTitle, sdReady, sdStatus,
                 scmState, sigsLeft, lastErr, lastStopRead>>
  /\ UNCHANGED <<pidVars, mainProc, runLog>>

\* smgr.SetStarted()
PayloadSetStarted ==
  /\ PayloadRunning /\ callsLeft > 0
  /\ IF ~dropped
     THEN /\ crashed' = "service must call DropPrivileges before calling SetStarted"
          /\ UNCHANGED startedChan
     ELSE /\ startedChan' = NonBlockingSend(startedChan, NotifyChanCap)
          /\ UNCHANGED crashed
  /\ callsLeft' = callsLeft - 1
  /\ UNCHANGED <<platform, info, w, dropped, started, stopping, status,
                 stopChan, statusNotifyChan, sig, supPc, payloadPc, retErr,
                 exitErr, exitCode, procTitle, sdReady, sdStatus, scmState,
                 sigsLeft, lastErr, lastStopRead>>
  /\ UNCHANGED <<pidVars, mainProc, runLog>>

\* What ihandler.SetStatus does to statusNotifyChan after storing the status.
SetStatusNotify(n) == NonBlockingRecv(n)

\* smgr.SetStatus(s)
PayloadSetStatus ==
  /\ PayloadRunning /\ callsLeft > 0
  /\ \E s \in Statuses : status' = s
  /\ statusNotifyChan' = IF platform = "unix"
                         THEN SetStatusNotify(statusNotifyChan)
                         ELSE statusNotifyChan
  /\ callsLeft' = callsLeft - 1
  /\ UNCHANGED <<platform, info, w, dropped, started, stopping, stopChan,
                 startedChan, sig, supPc, payloadPc, retErr, exitErr, exitCode,
                 crashed, procTitle, sdReady, sdStatus, scmState, sigsLeft,
                 lastErr, lastStopRead>>
  /\ UNCHANGED <<pidVars, mainProc, runLog>>

\* A poll of smgr.StopChan(): closed or not yet.
PayloadReadStop ==
  /\ PayloadRunning /\ callsLeft > 0
  /\ lastStopRead' = (stopChan = "closed")
  /\ callsLeft' = callsLeft - 1
  /\ UNCHANGED <<platform, info, w, dropped, started, stopping, status,
                 stopChan, statusNotifyChan, startedChan, sig, supPc,
                 payloadPc, retErr, exitErr, exitCode, crashed, procTitle,
                 sdReady, sdStatus, scmState, sigsLeft, lastErr>>
  /\ UNCHANGED <<pidVars, mainProc, runLog>>

\* RunFunc returns: nil, the error DropPrivileges gave it, or its own error.
\* The goroutine then blocks sending on the unbuffered doneChan.
PayloadReturn ==
  /\ PayloadRunning
  /\ \E e \in {"", "payload error", lastErr} : retErr' = e
  /\ payloadPc' = "sending"
  /\ UNCHANGED <<platform, info, w, dropped, started, stopping, status,
                 stopChan, statusNotifyChan, startedChan, sig, supPc, exitErr,
                 exitCode, crashed, procTitle, sdReady, sdStatus, scmState,
                 callsLeft, sigsLeft, lastErr, lastStopRead>>
  /\ UNCHANGED <<pidVars, mainProc, runLog>>

\* ------------------------------------------------------------------------
\* The operating system
\* ------------------------------------------------------------------------

\* Mutant of SigNotify: the channel is unbuffered, so a signal is taken only
\* while the supervisor waits in its select.
SigNotify_Unbuffered(q, s) == IF supPc = "select" /\ q = <<>> THEN Append(q, s) ELSE q

\* signal.Notify's delivery: a send that never blocks, so a signal that
\* finds the channel full is dropped.
SigNotify(q, s) == IF Len(q) < SigChanCap THEN Append(q, s) ELSE q

\* UNIX: a SIGINT or SIGTERM arrives.
OsSignal ==
  /\ platform = "unix" /\ Alive /\ sigsLeft > 0
  /\ \E s \in Signals : sig' = SigNotify(sig, s)
  /\ sigsLeft' = sigsLeft - 1
  /\ UNCHANGED <<platform, info, w, dropped, started, stopping, status,
                 stopChan, statusNotifyChan, startedChan, supPc, payloadPc,
                 retErr, exitErr, exitCode, crashed, procTitle, sdReady,
                 sdStatus, scmState, callsLeft, lastErr,
                 lastStopRead>>
  /\ UNCHANGED <<pidVars, mainProc, runLog>>

\* Windows: the service control manager offers a request on r.
OsControl ==
  /\ platform = "windows" /\ Alive /\ sigsLeft > 0
  /\ sig = <<>>
  /\ \E c \in ControlRequests : sig' = <<c>>
  /\ sigsLeft' = sigsLeft - 1
  /\ UNCHANGED <<platform, info, w, dropped, started, stopping, status,
                 stopChan, statusNotifyChan, startedChan, supPc, payloadPc,
                 retErr, exitErr, exitCode, crashed, procTitle, sdReady,
                 sdStatus, scmState, callsLeft, lastErr,
                 lastStopRead>>
  /\ UNCHANGED <<pidVars, mainProc, runLog>>

\* ------------------------------------------------------------------------
\* The supervisor loop: runInteractively (UNIX), handler.Execute (Windows)
\* ------------------------------------------------------------------------

\* The handler fields and loop locals a case body touches; publish says
\* whether the body calls updateStatus.
Locals ==
  [started |-> started, stopping |-> stopping, stopChan |-> stopChan,
   crashed |-> crashed, scmState |-> scmState, publish |-> FALSE]

\* close(stopChan): closing a closed channel panics.
CloseStopChan(h) ==
  IF h.stopChan = "closed"
  THEN [h EXCEPT !.crashed = "close of closed channel"]
  ELSE [h EXCEPT !.stopChan = "closed"]

\* Mutant of OnSignal: the stopping guard is missing.
OnSignal_NoGuard(h) ==
  LET h1 == CloseStopChan([h EXCEPT !.stopping = TRUE])
  IN [h1 EXCEPT !.publish = (h1.crashed = "")]

\* runInteractively, case <-sig
OnSignal(h) ==
  IF ~h.stopping
  THEN LET h1 == CloseStopChan([h EXCEPT !.stopping = TRUE])
       IN [h1 EXCEPT !.publish = (h1.crashed = "")]
  ELSE h


\* Mutant of OnStarted: the started event is dropped once stopping is set.
OnStarted_NotWhenStopping(h) ==
  IF ~h.started /\ ~h.stopping
  THEN [h EXCEPT !.started = TRUE, !.publish = TRUE] ELSE h

\* runInteractively, case <-smgr.startedChan
OnStarted(h) ==
  IF ~h.started THEN [h EXCEPT !.started = TRUE, !.publish = TRUE] ELSE h

\* runInteractively, case <-smgr.statusNotifyChan
OnStatusNotify(h) == [h EXCEPT !.publish = TRUE]

\* Execute, case c := <-r
OnControl(h, cmd) ==
  IF cmd = "Interrogate" THEN h
  ELSE IF cmd \in {"Stop", "Shutdown"}
  THEN LET h1 == [h EXCEPT !.scmState = "StopPending"]
       IN IF ~h1.stopping THEN CloseStopChan([h1 EXCEPT !.stopping = TRUE])
          ELSE h1
  ELSE h

\* Execute, case <-h.startedChan
OnStartedWindows(h) ==
  IF h.started
  THEN [h EXCEPT !.crashed = "must not call SetStarted() more than once"]
  ELSE [h EXCEPT !.started = TRUE, !.scmState = "Running"]

\* The body of the case the select chose.
CaseBody(c) ==
  IF platform = "unix"
  THEN IF c = "sig" THEN OnSignal(Locals)
       ELSE IF c = "started" THEN OnStarted(Locals)
       ELSE OnStatusNotify(Locals)
  ELSE IF c = "started" THEN OnStartedWindows(Locals)
       ELSE OnControl(Locals, c)

\* A select with a timeout case that ends the loop like doneChan does.
ReadyCases_Timeout ==
  (IF sig # <<>> THEN {"sig"} ELSE {})
  \cup (IF startedChan > 0 THEN {"started"} ELSE {})
  \cup (IF platform = "unix" /\ statusNotifyChan > 0 THEN {"status"} ELSE {})
  \cup {"done"}


\* Mutant of ReadyCases: a select without the doneChan case.
ReadyCases_NoDone ==
  (IF sig # <<>> THEN {"sig"} ELSE {})
  \cup (IF startedChan > 0 THEN {"started"} ELSE {})
  \cup (IF platform = "unix" /\ statusNotifyChan > 0 THEN {"status"} ELSE {})

\* The cases of the select that can proceed.
ReadyCases ==
  (IF sig # <<>> THEN {"sig"} ELSE {})
  \cup (IF startedChan > 0 THEN {"started"} ELSE {})
  \cup (IF platform = "unix" /\ statusNotifyChan > 0 THEN {"status"} ELSE {})
  \cup (IF payloadPc = "sending" THEN {"done"} ELSE {})

\* One select: receive from one ready channel.  Receiving from doneChan
\* completes the payload goroutine's send and breaks the loop.
SupSelect ==
  /\ Alive /\ supPc = "select"
  /\ \E c \in ReadyCases :
       /\ supPc' = IF c = "sig" THEN (IF platform = "unix" THEN "sig" ELSE Head(sig))
                   ELSE IF c = "done" THEN "exited" ELSE c
       /\ sig' = IF c = "sig" THEN Tail(sig) ELSE sig
       /\ startedChan' = IF c = "started" THEN startedChan - 1 ELSE startedChan
       /\ statusNotifyChan' = IF c = "status" THEN statusNotifyChan - 1
                              ELSE statusNotifyChan
       /\ payloadPc' = IF c = "done" THEN "done" ELSE payloadPc
       /\ exitErr' = IF c = "done" THEN retErr ELSE exitErr
  /\ UNCHANGED <<platform, info, w, dropped, started, stopping, status,
                 stopChan, retErr, exitCode, crashed, procTitle, sdReady,
                 sdStatus, scmState, callsLeft, sigsLeft, lastErr,
                 lastStopRead>>
  /\ UNCHANGED <<pidVars, mainProc, runLog>>

\* An updateStatus that reports READY=1 in every datagram.
ReadyLine_Always(systemd, isStarted) == systemd

\* updateStatus: the datagram sent carries READY=1.
ReadyLine(systemd, isStarted) == systemd /\ isStarted

\* The body of the chosen case, updateStatus included, then back to select.
SupHandle ==
  /\ Alive /\ supPc \notin {"select", "exited"}
  /\ \E h \in {CaseBody(supPc)} :
        /\ started' = h.started
        /\ stopping' = h.stopping
        /\ stopChan' = h.stopChan
        /\ crashed' = h.crashed
        /\ scmState' = h.scmState
        /\ sdReady' = (sdReady \/ (h.publish /\ ReadyLine(info.systemd, h.started)))
        /\ sdStatus' = IF h.publish /\ info.systemd /\ status # ""
                       THEN status ELSE sdStatus
        /\ procTitle' = IF h.publish /\ status # "" THEN status ELSE procTitle
  /\ supPc' = "select"
  /\ UNCHANGED <<platform, info, w, dropped, status, statusNotifyChan,
                 startedChan, sig, payloadPc, retErr, exitErr, exitCode,
                 callsLeft, sigsLeft, lastErr, lastStopRead>>
  /\ UNCHANGED <<pidVars, mainProc, runLog>>

\* The UID the configuration asks to switch to: -1 when none is configured
\* or it names no user.
TargetUID ==
  IF info.UID = <<>> \/ ParseUIDBuild(w.cgo, info.UID).err # "" THEN -1
  ELSE ParseUIDBuild(w.cgo, info.UID).n

\* The results os.Remove(pidFileName) can have when serviceMain returns:
\* after a chroot the name resolves inside the new, empty root and nothing
\* is removed; after a change of identity the directory may refuse; else
\* the process that created the file removes it.
RemoveOutcomes ==
  IF w.anchor # PathRoot THEN {FALSE}
  ELSE IF TargetUID > 0 /\ w.p.euid = TargetUID THEN BOOLEAN
  ELSE {TRUE}

\* A serviceMain without the deferred close: the file is left as it is.
closePIDFile_Skip(removed) ==
  [path |-> fsPath, lock |-> fsLock, proc |-> proc]

\* Info.closePIDFile, deferred by serviceMain: ClosePIDFile as a whole.
\* removed: os.Remove succeeded.
closePIDFile(removed) ==
  IF HasPidFile(Self)
  THEN [path |-> IF removed THEN 0 ELSE fsPath,
        lock |-> Unlock(fsLock, proc[Self].pidFile, Self),
        proc |-> [proc EXCEPT ![Self].pidFile = 0,
                              ![Self].pidFileName = PathNone,
                              ![Self].closes = @ + 1]]
  ELSE [path |-> fsPath, lock |-> fsLock, proc |-> proc]

\* An exit status that does not look at the error.
ExitStatus_Zero(err) == 0

\* Info.main: os.Exit(1) on an error; Execute: service exit code 1 on an
\* error, 0 otherwise.
ExitStatus(err) == IF err # "" THEN 1 ELSE 0

\* After the loop: serviceMain returns, which runs the deferred
\* closePIDFile; Info.main exits 1 on an error and 0 otherwise (UNIX);
\* Execute publishes Stopped and returns 0, or returns 1 (Windows).
MainExit ==
  /\ Alive /\ supPc = "exited"
  /\ exitCode' = ExitStatus(exitErr)
  /\ scmState' = IF platform = "windows" /\ exitErr = "" THEN "Stopped"
                 ELSE scmState
  /\ \E removed \in RemoveOutcomes :
       \E c \in {closePIDFile(removed)} :
          fsPath' = c.path /\ fsLock' = c.lock /\ proc' = c.proc
  /\ UNCHANGED <<platform, info, w, dropped, started, stopping, status,
                 stopChan, statusNotifyChan, startedChan, sig, supPc,
                 payloadPc, retErr, exitErr, crashed, procTitle, sdReady,
                 sdStatus, callsLeft, sigsLeft, lastErr,
                 lastStopRead>>
  /\ UNCHANGED <<fsData, nextIno, mainProc, runLog>>

Next ==
  \/ PayloadDropPrivileges
  \/ PayloadSetStarted
  \/ PayloadSetStatus
  \/ PayloadReadStop
  \/ PayloadReturn
  \/ OsSignal
  \/ OsControl
  \/ SupSelect
  \/ SupHandle
  \/ MainExit

Spec == Init /\ [][Next]_vars

\* The supervisor goroutine runs whenever it can; the payload and the
\* operating system are under no obligation to act.
FairSpec == Spec /\ WF_vars(SupSelect) /\ WF_vars(SupHandle) /\ WF_vars(MainExit)

NextDrop ==
  \/ PayloadDropPrivileges
  \/ PayloadSetStarted

SpecDrop == InitDrop /\ [][NextDrop]_vars

\* ------------------------------------------------------------------------
\* pidfile: OpenPIDFile, openPIDFile and ClosePIDFile, one system call a step
\* ------------------------------------------------------------------------

lifecycleVars ==
  <<platform, info, w, dropped, started, stopping, status, stopChan,
    statusNotifyChan, startedChan, sig, supPc, payloadPc, retErr, exitErr,
    exitCode, crashed, procTitle, sdReady, sdStatus, scmState, callsLeft,
    sigsLeft, lastErr, lastStopRead>>

\* Mutant of AlreadyOpen: OpenPIDFile does not look at pidFile.
AlreadyOpen_Never(pr) == FALSE

\* OpenPIDFile's guard: pidFile != nil.
AlreadyOpen(pr) == pr.pidFile # 0

\* Mutant of LockGranted: the lock is granted whoever holds it.
LockGranted_Always(holder, p) == TRUE

\* fcntl(F_SETLK, F_WRLCK) on an inode whose write lock is held by holder
\* (0: nobody): granted at once or refused at once, never waited for.
LockGranted(holder, p) == holder = 0 \/ holder = p

\* Mutant of StatVerdict: the inode numbers are not compared.
StatVerdict_NoCheck(ino, pathIno) == "ok"

\* The comparison after locking: the path must still exist and name the
\* inode that was locked.
StatVerdict(ino, pathIno) ==
  IF pathIno = 0 THEN "retry"
  ELSE IF ino # pathIno THEN "retry"
  ELSE "ok"

\* OpenPIDFile calls made so far by the processes 1..n.
RECURSIVE OpensUpTo(_)
OpensUpTo(n) == IF n = 0 THEN 0 ELSE proc[n].opens + OpensUpTo(n - 1)

\* OpenPIDFile is called.
PidOpenCall(p) ==
  /\ proc[p].pc = "idle" /\ OpensUpTo(MaxProcs) < MaxOpens
  /\ proc' = [proc EXCEPT ![p] =
       IF AlreadyOpen(@)
       THEN [@ EXCEPT !.err = "PID file already opened", !.opens = @ + 1]
       ELSE [@ EXCEPT !.err = "", !.opens = @ + 1, !.pc = "create"]]
  /\ UNCHANGED <<fsPath, fsData, fsLock, nextIno>>
  /\ UNCHANGED <<lifecycleVars, mainProc, runLog>>

\* os.OpenFile(filename, O_RDWR|O_CREAT|O_EXCL)
PidCreate(p) ==
  /\ proc[p].pc = "create"
  /\ IF fsPath = 0
     THEN /\ nextIno \in Inodes
          /\ fsPath' = nextIno
          /\ fsData' = [fsData EXCEPT ![nextIno] = <<>>]
          /\ nextIno' = nextIno + 1
          /\ proc' = [proc EXCEPT ![p].f = nextIno, ![p].pc = "lock"]
     ELSE /\ proc' = [proc EXCEPT ![p].pc = "open"]
          /\ UNCHANGED <<fsPath, fsData, nextIno>>
  /\ UNCHANGED fsLock
  /\ UNCHANGED <<lifecycleVars, mainProc, runLog>>

\* os.OpenFile(filename, O_RDWR) after the creation found the path taken.
PidOpenExisting(p) ==
  /\ proc[p].pc = "open"
  /\ proc' = IF fsPath # 0
             THEN [proc EXCEPT ![p].f = fsPath, ![p].pc = "lock"]
             ELSE [proc EXCEPT ![p].pc = "create"]
  /\ UNCHANGED <<fsPath, fsData, fsLock, nextIno>>
  /\ UNCHANGED <<lifecycleVars, mainProc, runLog>>

\* syscall.FcntlFlock(F_SETLK); on failure the descriptor is closed and
\* the error returned.
PidLock(p) ==
  /\ proc[p].pc = "lock"
  /\ IF LockGranted(fsLock[proc[p].f], p)
     THEN /\ fsLock' = [fsLock EXCEPT ![proc[p].f] = p]
          /\ proc' = [proc EXCEPT ![p].pc = "stat"]
     ELSE /\ fsLock' = Unlock(fsLock, proc[p].f, p)
          /\ proc' = [proc EXCEPT ![p].f = 0, ![p].pc = "idle",
                                  ![p].err = "EAGAIN"]
  /\ UNCHANGED <<fsPath, fsData, nextIno>>
  /\ UNCHANGED <<lifecycleVars, mainProc, runLog>>


\* Mutant of PidStat: the loop starts over without closing the descriptor.
PidStat_NoClose(p) ==
  /\ proc[p].pc = "stat"
  /\ IF StatVerdict(proc[p].f, fsPath) = "ok"
     THEN proc' = [proc EXCEPT ![p].pc = "write"]
     ELSE proc' = [proc EXCEPT ![p].pc = "create"]
  /\ UNCHANGED <<fsPath, fsData, fsLock, nextIno>>
  /\ UNCHANGED <<lifecycleVars, mainProc, runLog>>

\* Fstat of the descriptor, Stat of the path, and the comparison of the
\* inode numbers; on a mismatch or a vanished path the descriptor is closed
\* and the loop starts over.
PidStat(p) ==
  /\ proc[p].pc = "stat"
  /\ IF StatVerdict(proc[p].f, fsPath) = "ok"
     THEN /\ proc' = [proc EXCEPT ![p].pc = "write"]
          /\ UNCHANGED fsLock
     ELSE /\ fsLock' = Unlock(fsLock, proc[p].f, p)
          /\ proc' = [proc EXCEPT ![p].f = 0, ![p].pc = "create"]
  /\ UNCHANGED <<fsPath, fsData, nextIno>>
  /\ UNCHANGED <<lifecycleVars, mainProc, runLog>>

\* OpenPIDFile after openPIDFile succeeded: the pid is written and the
\* descriptor and the name are recorded.
PidWrite(p) ==
  /\ proc[p].pc = "write"
  /\ fsData' = [fsData EXCEPT ![proc[p].f] = WriteString(@, PidString(Getpid(p)))]
  /\ proc' = [proc EXCEPT ![p].pidFile = proc[p].f,
                          ![p].pidFileName = PidFilePath,
                          ![p].f = 0, ![p].pc = "idle", ![p].err = ""]
  /\ UNCHANGED <<fsPath, fsLock, nextIno>>
  /\ UNCHANGED <<lifecycleVars, mainProc, runLog>>

\* ClosePIDFile with a file open, first half: os.Remove(pidFileName).
PidRemove(p) ==
  /\ proc[p].pc = "idle" /\ proc[p].pidFile # 0
  /\ fsPath' = 0
  /\ proc' = [proc EXCEPT ![p].pc = "closing", ![p].closes = @ + 1]
  /\ UNCHANGED <<fsData, fsLock, nextIno>>
  /\ UNCHANGED <<lifecycleVars, mainProc, runLog>>

\* ClosePIDFile, second half: pidFile.Close() and the reset of the globals.
PidClose(p) ==
  /\ proc[p].pc = "closing"
  /\ fsLock' = Unlock(fsLock, proc[p].pidFile, p)
  /\ proc' = [proc EXCEPT ![p].pidFile = 0, ![p].pidFileName = PathNone,
                          ![p].pc = "idle"]
  /\ UNCHANGED <<fsPath, fsData, nextIno>>
  /\ UNCHANGED <<lifecycleVars, mainProc, runLog>>

\* What a file left behind by an earlier process may contain.
StaleContents == { PidString(7), PidString(12345) }

\* Runs explored by SpecPid: the path is free or holds a stale, unlocked
\* file; the processes open and close the PID file in any interleaving.
InitPid ==
  /\ platform = "unix"
  /\ info = Conf(FALSE, PathNone, FALSE, <<>>, <<>>, PathNone)
  /\ w = World(UserCred)
  /\ InitHandler(0, 0)
  /\ \/ NoPidFile
     \/ /\ fsPath = 1 /\ nextIno = 2
        /\ \E c \in StaleContents :
             fsData = [i \in Inodes |-> IF i = 1 THEN c ELSE <<>>]
        /\ fsLock = [i \in Inodes |-> 0]
        /\ proc = [p \in Procs |-> IdleProc]
  /\ NoStartUp
  /\ runLog = <<>>

NextPid ==
  \/ \E p \in Procs : PidOpenCall(p)
  \/ \E p \in Procs : PidCreate(p)
  \/ \E p \in Procs : PidOpenExisting(p)
  \/ \E p \in Procs : PidLock(p)
  \/ \E p \in Procs : PidStat(p)
  \/ \E p \in Procs : PidWrite(p)
  \/ \E p \in Procs : PidRemove(p)
  \/ \E p \in Procs : PidClose(p)

SpecPid == InitPid /\ [][NextPid]_vars

\* ------------------------------------------------------------------------
\* Start-up actions (Info.serviceMain, step by step)
\* ------------------------------------------------------------------------

\* The process returns an error from serviceMain: Info.main exits 1.
MainFail(p) == [mainProc EXCEPT ![p].pc = "exited", ![p].exitCode = 1]

FreeSlots == { q \in MainProcs : mainProc[q].pc = "none" }

\* Results os.StartProcess can have: it fails when the host has no room.
StartOutcomes == IF FreeSlots = {} THEN {FALSE} ELSE BOOLEAN

\* if info.Config.Fork { daemon.Fork() ... }: the parent exits 0, the child
\* goes on with Config.Daemon set.
MainFork(p) ==
  /\ mainProc[p].pc = "main"
  /\ \E startOk \in StartOutcomes :
       \E r \in {Fork(mainProc[p].Args, startOk)} :
         mainProc' =
           IF ~mainProc[p].Config.Fork
           THEN [mainProc EXCEPT ![p].pc = "init"]
           ELSE IF r.err # "" THEN MainFail(p)
           ELSE IF r.isParent
           THEN [mainProc EXCEPT
                   ![p].pc = "exited", ![p].exitCode = 0,
                   ![p].children = @ + 1,
                   ![CHOOSE q \in FreeSlots : \A q2 \in FreeSlots : q <= q2] =
                     NewMainProc(r.newArgs, mainProc[p].Config,
                                 mainProc[p].notifySocket, p)]
           ELSE [mainProc EXCEPT ![p].pc = "init", ![p].Args = r.Args,
                                 ![p].Config.Daemon = TRUE]
  /\ UNCHANGED <<lifecycleVars, pidVars, runLog>>

\* daemon.Init() and the probe systemdUpdateStatus("\n").
MainInit(p) ==
  /\ mainProc[p].pc = "init"
  /\ \E initOk \in BOOLEAN :
       mainProc' =
         IF ~initOk THEN MainFail(p)
         ELSE [mainProc EXCEPT ![p].pc = "daemonize", ![p].probed = TRUE,
                               ![p].systemd = mainProc[p].notifySocket]
  /\ UNCHANGED <<lifecycleVars, pidVars, runLog>>


\* Mutant of MainDaemonize: serviceMain goes on without daemonizing.
MainDaemonize_Skip(p) ==
  /\ mainProc[p].pc = "daemonize"
  /\ mainProc' = [mainProc EXCEPT ![p].pc = "pidfile"]
  /\ UNCHANGED <<lifecycleVars, pidVars, runLog>>

\* The decision and, if taken, daemon.Daemonize(keepStderr).
MainDaemonize(p) ==
  /\ mainProc[p].pc = "daemonize"
  /\ \E ok \in BOOLEAN :
       \E d \in {daemonizeDecision(mainProc[p].Config.Daemon,
                                   mainProc[p].Config.Stderr,
                                   mainProc[p].systemd)} :
         mainProc' =
           IF ~d.daemonize THEN [mainProc EXCEPT ![p].pc = "pidfile"]
           ELSE IF ~ok THEN MainFail(p)
           ELSE [mainProc EXCEPT
                   ![p].pc = "pidfile", ![p].daemonized = TRUE,
                   ![p].stdio = Daemonize(mainProc[p].stdio, d.keepStderr)]
  /\ UNCHANGED <<lifecycleVars, pidVars, runLog>>

\* if info.Config.PIDFile != "" { info.openPIDFile() ... }
MainOpenPIDFile(p) ==
  /\ mainProc[p].pc = "pidfile"
  /\ \E ok \in BOOLEAN :
       mainProc' =
         IF ~mainProc[p].Config.PIDFile
         THEN [mainProc EXCEPT ![p].pc = "run"]
         ELSE IF ~ok THEN MainFail(p)
         ELSE [mainProc EXCEPT ![p].pc = "run", ![p].pidFileOpened = TRUE,
                               ![p].pidFileOpen = TRUE]
  /\ UNCHANGED <<lifecycleVars, pidVars, runLog>>

\* info.runInteractively() starts RunFunc, which sees os.Args.
MainRun(p) ==
  /\ mainProc[p].pc = "run"
  /\ mainProc' = [mainProc EXCEPT ![p].pc = "running", ![p].payload = TRUE,
                                  ![p].payloadArgs = mainProc[p].Args]
  /\ UNCHANGED <<lifecycleVars, pidVars, runLog>>

\* runInteractively returns; the deferred closePIDFile runs; Info.main
\* exits.
MainReturn(p) ==
  /\ mainProc[p].pc = "running"
  /\ \E failed \in BOOLEAN :
       mainProc' = [mainProc EXCEPT ![p].pc = "exited",
                                    ![p].pidFileOpen = FALSE,
                                    ![p].exitCode = IF failed THEN 1 ELSE 0]
  /\ UNCHANGED <<lifecycleVars, pidVars, runLog>>

\* Invocations explored by SpecMain: every argv within the bounds, every
\* Config, NOTIFY_SOCKET live or not.
InitMain ==
  /\ platform = "unix"
  /\ info = Conf(FALSE, PathNone, FALSE, <<>>, <<>>, PathNone)
  /\ w = World(UserCred)
  /\ InitHandler(0, 0)
  /\ NoPidFile
  /\ \E args \in InitialArgs, config \in MainConfigs, socket \in BOOLEAN :
       mainProc = [p \in MainProcs |->
                     IF p = 1 THEN NewMainProc(args, config, socket, 0)
                     ELSE NoMainProc]
  /\ runLog = <<>>

NextMain ==
  \/ \E p \in MainProcs : MainFork(p)
  \/ \E p \in MainProcs : MainInit(p)
  \/ \E p \in MainProcs : MainDaemonize(p)
  \/ \E p \in MainProcs : MainOpenPIDFile(p)
  \/ \E p \in MainProcs : MainRun(p)
  \/ \E p \in MainProcs : MainReturn(p)

SpecMain == InitMain /\ [][NextMain]_vars

\* ------------------------------------------------------------------------
\* The RunFunc that setRunFunc makes from NewFunc
\* ------------------------------------------------------------------------

\* Errors NewFunc, Start and Stop of the Runnable can return.
NewErrs == {"", "new error"}
StartErrs == {"", "start error"}
StopErrs == {"", "stop error"}

StatusRunningOk == "running ok"

\* A RunFunc that goes on to SetStarted when Start failed.
RunFuncNext_IgnoreStartErr(pc, err) ==
  IF pc = "stop" THEN "sending"
  ELSE IF pc = "new" THEN (IF err # "" THEN "sending" ELSE "drop")
  ELSE IF pc = "drop" THEN (IF err # "" THEN "sending" ELSE "start")
  ELSE IF pc = "start" THEN "setstarted"
  ELSE IF pc = "setstarted" THEN "setstatus"
  ELSE "loop"

\* Where the RunFunc goes after the call at pc returned err: it returns
\* (and sends on doneChan) after a failed NewFunc, DropPrivileges or Start
\* and after Stop.
RunFuncNext(pc, err) ==
  IF pc = "stop" THEN "sending"
  ELSE IF pc \in {"new", "drop", "start"}
  THEN IF err # "" THEN "sending"
       ELSE IF pc = "new" THEN "drop"
       ELSE IF pc = "drop" THEN "start"
       ELSE "setstarted"
  ELSE IF pc = "setstarted" THEN "setstatus"
  ELSE "loop"

\* The RunFunc is at pc.
RunAt(pc) == Alive /\ payloadPc = pc

\* The call at the RunFunc's position returned err: it is logged, and the
\* RunFunc moves on or returns err.
RunCallDone(call, err) ==
  /\ runLog' = Append(runLog, [call |-> call, err |-> err])
  /\ payloadPc' = RunFuncNext(payloadPc, err)
  /\ retErr' = IF RunFuncNext(payloadPc, err) = "sending" THEN err ELSE retErr

\* r, err := info.NewFunc()
RunNewFunc ==
  /\ RunAt("new")
  /\ \E err \in NewErrs : RunCallDone("NewFunc", err)
  /\ UNCHANGED <<platform, info, w, dropped, started, stopping, status,
                 stopChan, statusNotifyChan, startedChan, sig, supPc, exitErr,
                 exitCode, crashed, procTitle, sdReady, sdStatus, scmState,
                 callsLeft, sigsLeft, lastErr, lastStopRead>>
  /\ UNCHANGED <<pidVars, mainProc>>

\* err = smgr.DropPrivileges()
RunDropPrivileges ==
  /\ RunAt("drop")
  /\ \E env \in Envs :
       \E r \in {DropPrivileges(dropped, info, [w EXCEPT !.ops = <<>>], env)} :
          /\ dropped' = r.dropped
          /\ info' = r.info
          /\ w' = r.w
          /\ lastErr' = r.err
          /\ RunCallDone("DropPrivileges", r.err)
  /\ UNCHANGED <<platform, started, stopping, status, stopChan,
                 statusNotifyChan, startedChan, sig, supPc, exitErr, exitCode,
                 crashed, procTitle, sdReady, sdStatus, scmState, callsLeft,
                 sigsLeft, lastStopRead>>
  /\ UNCHANGED <<pidVars, mainProc>>

\* err = r.Start()
RunStart ==
  /\ RunAt("start")
  /\ \E err \in StartErrs : RunCallDone("Start", err)
  /\ UNCHANGED <<platform, info, w, dropped, started, stopping, status,
                 stopChan, statusNotifyChan, startedChan, sig, supPc, exitErr,
                 exitCode, crashed, procTitle, sdReady, sdStatus, scmState,
                 callsLeft, sigsLeft, lastErr, lastStopRead>>
  /\ UNCHANGED <<pidVars, mainProc>>

\* smgr.SetStarted()
RunSetStarted ==
  /\ RunAt("setstarted")
  /\ IF ~dropped
     THEN /\ crashed' = "service must call DropPrivileges before calling SetStarted"
          /\ UNCHANGED <<startedChan, runLog, payloadPc, retErr>>
     ELSE /\ startedChan' = NonBlockingSend(startedChan, NotifyChanCap)
          /\ RunCallDone("SetStarted", "")
          /\ UNCHANGED crashed
  /\ UNCHANGED <<platform, info, w, dropped, started, stopping, status,
                 stopChan, statusNotifyChan, sig, supPc, exitErr, exitCode,
                 procTitle, sdReady, sdStatus, scmState, callsLeft, sigsLeft,
                 lastErr, lastStopRead>>
  /\ UNCHANGED <<pidVars, mainProc>>

\* What SetStatus does besides storing the status.
RunStatusNotify ==
  statusNotifyChan' = IF platform = "unix"
                      THEN SetStatusNotify(statusNotifyChan)
                      ELSE statusNotifyChan

\* smgr.SetStatus(info.Name + ": running ok")
RunSetStatus ==
  /\ RunAt("setstatus")
  /\ status' = StatusRunningOk
  /\ RunStatusNotify
  /\ RunCallDone("SetStatus", "")
  /\ UNCHANGED <<platform, info, w, dropped, started, stopping, stopChan,
                 startedChan, sig, supPc, exitErr, exitCode, crashed,
                 procTitle, sdReady, sdStatus, scmState, callsLeft, sigsLeft,
                 lastErr, lastStopRead>>
  /\ UNCHANGED <<pidVars, mainProc>>

\* The loop, case statusMsg := <-getStatusChan(): the Runnable is a
\* StatusSource and reports a status.
RunLoopStatus ==
  /\ RunAt("loop") /\ callsLeft > 0
  /\ \E msg \in Statuses : status' = msg
  /\ RunStatusNotify
  /\ RunCallDone("SetStatus", "")
  /\ callsLeft' = callsLeft - 1
  /\ UNCHANGED <<platform, info, w, dropped, started, stopping, stopChan,
                 startedChan, sig, supPc, exitErr, exitCode, crashed,
                 procTitle, sdReady, sdStatus, scmState, sigsLeft, lastErr,
                 lastStopRead>>
  /\ UNCHANGED <<pidVars, mainProc>>

\* The loop, case <-smgr.StopChan(): break.
RunLoopStop ==
  /\ RunAt("loop") /\ stopChan = "closed"
  /\ payloadPc' = "stop"
  /\ lastStopRead' = TRUE
  /\ UNCHANGED <<platform, info, w, dropped, started, stopping, status,
                 stopChan, statusNotifyChan, startedChan, sig, supPc, retErr,
                 exitErr, exitCode, crashed, procTitle, sdReady, sdStatus,
                 scmState, callsLeft, sigsLeft, lastErr>>
  /\ UNCHANGED <<pidVars, mainProc, runLog>>

\* return r.Stop()
RunStop ==
  /\ RunAt("stop")
  /\ \E err \in StopErrs : RunCallDone("Stop", err)
  /\ UNCHANGED <<platform, info, w, dropped, started, stopping, status,
                 stopChan, statusNotifyChan, startedChan, sig, supPc, exitErr,
                 exitCode, crashed, procTitle, sdReady, sdStatus, scmState,
                 callsLeft, sigsLeft, lastErr, lastStopRead>>
  /\ UNCHANGED <<pidVars, mainProc>>

\* Runs explored by SpecRun: a drop that succeeds with and without a change
\* of identity, one refused for root, and one of the build without cgo.
RunRuns ==
  { <<Conf(FALSE, PathNone, TRUE, NameBob, <<>>, PathEmpty), RootCred, TRUE>>,
    <<Conf(FALSE, PathNone, FALSE, <<>>, <<>>, PathNone), RootCred, TRUE>>,
    <<Conf(FALSE, PathNone, TRUE, <<>>, <<>>, PathNone), UserCred, TRUE>>,
    <<Conf(FALSE, PathNone, FALSE, NameBob, <<>>, PathNone), RootCred, FALSE>> }

\* The loop is entered with the RunFunc about to call NewFunc.
InitRun ==
  /\ platform \in {"unix", "windows"}
  /\ \E r \in IF platform = "unix" THEN RunRuns
              ELSE {<<WindowsRun[1], WindowsRun[2], TRUE>>} :
       info = r[1] /\ w = [World(r[2]) EXCEPT !.cgo = r[3]]
  /\ dropped = FALSE /\ started = FALSE /\ stopping = FALSE
  /\ status = "" /\ stopChan = "open"
  /\ statusNotifyChan = 0 /\ startedChan = 0 /\ sig = <<>>
  /\ supPc = "select" /\ payloadPc = "new"
  /\ retErr = "" /\ exitErr = "" /\ exitCode = -1 /\ crashed = ""
  /\ procTitle = "" /\ sdReady = FALSE /\ sdStatus = ""
  /\ scmState = IF platform = "windows" THEN "StartPending" ELSE ""
  /\ callsLeft = MaxCalls /\ sigsLeft = MaxSignals
  /\ lastErr = "" /\ lastStopRead = FALSE
  /\ NoPidFile
  /\ NoStartUp
  /\ runLog = <<>>

NextRun ==
  \/ RunNewFunc
  \/ RunDropPrivileges
  \/ RunStart
  \/ RunSetStarted
  \/ RunSetStatus
  \/ RunLoopStatus
  \/ RunLoopStop
  \/ RunStop
  \/ OsSignal
  \/ OsControl
  \/ SupSelect
  \/ SupHandle
  \/ MainExit

SpecRun == InitRun /\ [][NextRun]_vars

\* ------------------------------------------------------------------------
\* Properties
\* ------------------------------------------------------------------------

PanicSetStarted == "service must call DropPrivileges before calling SetStarted"

\* C1: started implies dropped in every reachable state; no started event
\* is queued or being handled unless dropped holds, and the SetStarted panic
\* only ever happens with dropped false and leaves no started event behind.
C1_StartedImpliesDropped ==
  /\ started => dropped
  /\ startedChan > 0 => dropped
  /\ supPc = "started" => dropped
  /\ crashed = PanicSetStarted => (~dropped /\ ~started /\ startedChan = 0)

\* The supervisor has latched started after a successful DropPrivileges.
C1_Witness == platform = "unix" /\ started /\ dropped

\* The cases whose body may close the stop channel.
StopCases == {"sig", "Stop", "Shutdown"}

\* C2: the stop channel is closed exactly once, on the first stop request:
\* once closed it stays closed, closing never panics, stopping never goes
\* back to false and holds exactly when the channel is closed, and every
\* handled stop request leaves the channel closed.
C2_StopClosedOnce ==
  [][ /\ (stopChan = "closed" => stopChan' = "closed")
      /\ (stopping => stopping')
      /\ (stopping' <=> stopChan' = "closed")
      /\ crashed' # "close of closed channel"
      /\ (supPc \in StopCases /\ supPc' = "select" => stopChan' = "closed")
    ]_vars

\* A further stop request has been received while the channel is closed.
C2_Witness == stopping /\ stopChan = "closed" /\ supPc \in StopCases

\* The supervisor has published status s: the process title and, under
\* systemd, the STATUS line.
Published(s) == procTitle = s /\ (info.systemd => sdStatus = s)

\* C3: on UNIX, once the payload has set status s, the supervisor eventually
\* publishes s, unless the payload sets another status, returns, or the
\* process ends first; no signal or SetStarted call is needed for it.
C3_StatusEventuallyPublished ==
  \A s \in Statuses :
    (platform = "unix" /\ status = s)
      ~> (Published(s) \/ status # s \/ payloadPc # "running" \/ ~Alive)

\* A SIGINT or SIGTERM has been delivered to the process.
SignalDelivered == platform = "unix" /\ sigsLeft < MaxSignals

\* C4 as stated: once a signal has been delivered while the payload runs,
\* the stop channel is eventually closed (or the process panics).
C4_SignalAlwaysClosesStop ==
  (SignalDelivered /\ payloadPc = "running")
    ~> (stopChan = "closed" \/ crashed # "")

\* C4, amended: once a signal has been delivered, the stop channel is
\* eventually closed unless the supervisor receives the payload's result or
\* the process ends first; and every payload read of StopChan made while
\* the channel is closed observes it closed.
C4_SignalClosesStop ==
  /\ SignalDelivered ~> (stopChan = "closed" \/ supPc = "exited" \/ ~Alive)
  /\ [][(PayloadReadStop /\ stopChan = "closed") => lastStopRead']_vars

\* The payload has read the stop channel closed after a signal.
C4_Witness ==
  SignalDelivered /\ stopChan = "closed" /\ lastStopRead /\ payloadPc = "running"

\* The process holds no privilege: no id among uid, euid, gid, egid is 0,
\* setuid(0) and setgid(0) would fail, and it holds no capability.
NoPrivs(p) ==
  /\ ~isRoot(p)
  /\ Setuid(p, 0).err # ""
  /\ Setgid(p, 0).err # ""
  /\ ~HaveAny(p)

\* C5 as stated: for every configuration, after a successful DropPrivileges
\* on UNIX the process holds no privilege.
C5_SuccessMeansNoPrivs ==
  (platform = "unix" /\ dropped) => NoPrivs(w.p)

\* C5, amended: after a successful DropPrivileges on UNIX the process holds
\* no privilege, provided allow_root is false or a positive target UID is
\* configured.
C5_SuccessMeansNoPrivsUnlessAllowRoot ==
  (platform = "unix" /\ dropped /\ (~info.AllowRoot \/ TargetUID > 0))
    => NoPrivs(w.p)

\* A process started as root has switched to the configured user.
C5_Witness ==
  /\ platform = "unix" /\ dropped /\ TargetUID = 7
  /\ w.p.ruid = 7 /\ w.p.euid = 7 /\ w.p.rgid = 8 /\ NoPrivs(w.p)

ErrMustNotRunAsRoot == "Daemon must not run as root or with capabilities"

\* C6: on UNIX with allow_root false and no UID or GID configured, while
\* the process is root or holds capabilities: every DropPrivileges call
\* made has returned an error and dropped is false, so no started event
\* exists, readiness has not been reported and the only possible panic is
\* SetStarted's; and a run that ended with an error ended with exit code 1.
C6_RootForbidden ==
  (platform = "unix" /\ ~info.AllowRoot /\ info.UID = <<>> /\ info.GID = <<>>
     /\ IsRoot(w.p))
    => /\ ~dropped
       /\ w.ops # <<>> => lastErr \in {ErrMustNotRunAsRoot, "cannot drop caps"}
       /\ ~started /\ startedChan = 0 /\ ~sdReady
       /\ crashed \in {"", PanicSetStarted}
       /\ (exitCode # -1 /\ exitErr # "") => exitCode = 1

\* Started as root, the payload returned the error DropPrivileges gave it
\* and the process exited with status 1.
C6_Witness ==
  /\ platform = "unix" /\ ~info.AllowRoot /\ info.UID = <<>> /\ w.p.ruid = 0
  /\ ~dropped /\ lastErr = ErrMustNotRunAsRoot /\ exitErr = ErrMustNotRunAsRoot
  /\ exitCode = 1

\* C7: a DropPrivileges call made once dropped is set returns success and
\* performs no operation at all: the credentials, the chroot anchor, the
\* configuration and the handler's flags are what they were.
C7_RepeatedDropIsNoOp ==
  [][(PayloadDropPrivileges /\ dropped)
       => /\ lastErr' = "" /\ w'.ops = <<>>
          /\ w'.p = w.p /\ w'.anchor = w.anchor /\ info' = info
          /\ dropped' /\ started' = started /\ stopping' = stopping
    ]_vars

\* A second call has returned after a first one that changed the identity.
C7_Witness ==
  /\ platform = "unix" /\ dropped /\ lastErr = "" /\ w.ops = <<>>
  /\ callsLeft = MaxDropCalls - 2 /\ w.p.ruid = 7

\* The orchestrator's operations, in the order it performs them.
OrchOrder ==
  <<"getextragids", "tryChroot", "setgroups", "setresgid", "setresuid",
    "chdir", "verify">>

IsOrchOp(o) == \E i \in 1..Len(OrchOrder) : OrchOrder[i] = o.op

\* The orchestrator's operations among those the latest call performed.
OrchOps == SelectSeq(w.ops, IsOrchOp)

IdentityCalls == {"setgroups", "setresgid", "setresuid"}

C8_WitnessFailure ==
  /\ w.ops # <<>> /\ w.ops[Len(w.ops)].op = "setresuid"
  /\ w.ops[Len(w.ops)].err # "" /\ w.p.rgid = 8 /\ w.p.ruid # 7

\* The configuration names 0 as the UID or the GID to switch to.
ZeroTarget ==
  /\ info.UID # <<>>
  /\ \/ ParseUID(info.UID) = [err |-> "", n |-> 0]
     \/ ParseGID(info.GID) = [err |-> "", n |-> 0]

\* C9: with a target UID or GID of 0 configured, for every allow_root, no
\* DropPrivileges call succeeds and no setgroups, setresgid or setresuid is
\* called with id 0.
C9_ZeroTargetRejected ==
  (platform = "unix" /\ ZeroTarget)
    => /\ ~dropped
       /\ \A i \in 1..Len(w.ops) :
            w.ops[i].op \in IdentityCalls => w.ops[i].arg # 0

ErrChrootNeedsDrop == "Must use privilege dropping to use chroot"

\* C10: on UNIX with no UID configured and Config.Chroot neither "" nor
\* "/", every DropPrivileges call made returns the error that chroot needs
\* a privilege drop, no chroot is attempted, the chroot anchor does not
\* move, and dropped stays false.
C10_ChrootNeedsDrop ==
  (platform = "unix" /\ info.UID = <<>>
     /\ info.Chroot # PathNone /\ info.Chroot # PathRoot)
    => /\ ~dropped
       /\ w.anchor = PathRoot
       /\ \A i \in 1..Len(w.ops) : w.ops[i].op \notin {"tryChroot", "chroot"}
       /\ w.ops # <<>> => lastErr = ErrChrootNeedsDrop

\* A call has been refused while the process could have changed its root.
C10_Witness ==
  /\ platform = "unix" /\ info.UID = <<>> /\ info.Chroot = PathEmpty
  /\ "sys_chroot" \in w.p.caps /\ info.AllowRoot
  /\ w.ops # <<>> /\ lastErr = ErrChrootNeedsDrop /\ ~dropped

\* The latest call performed operation name; with the given outcome.
Did(name) == \E i \in 1..Len(w.ops) : w.ops[i].op = name
DidOk(name) == \E i \in 1..Len(w.ops) : w.ops[i].op = name /\ w.ops[i].err = ""
DidFail(name) == \E i \in 1..Len(w.ops) : w.ops[i].op = name /\ w.ops[i].err # ""

ExplicitChroot == info.Chroot # PathNone /\ info.Chroot # PathRoot

ErrFailedToChroot == "Failed to chroot"

AllOpensReturned ==
  \A p \in Procs : proc[p].pc = "idle" /\ proc[p].opens > 0 /\ proc[p].closes = 0

\* A step of the open protocol of process p.
OpenStep(p) ==
  PidCreate(p) \/ PidOpenExisting(p) \/ PidLock(p) \/ PidStat(p) \/ PidWrite(p)

C13_HandleIsPath ==
  \A p \in Procs : HasPidFile(p) => fsPath = proc[p].pidFile

\* C13, amended: from the return of a successful OpenPIDFile until the
\* process calls ClosePIDFile, the path refers to the inode of its handle
\* and the process holds the lock on it; so no two processes are in that
\* condition together.  (Inside ClosePIDFile, between its unlink and its
\* close, the handle still exists and the path is gone or another's.)
C13_HandleIsPathUntilClose ==
  \A p \in Procs :
    (HasPidFile(p) /\ proc[p].pc # "closing")
      => /\ fsPath = proc[p].pidFile
         /\ fsLock[proc[p].pidFile] = p
         /\ proc[p].pidFileName = PidFilePath

\* A process that opened the file before its holder unlinked it has locked
\* the unlinked inode, while the path already names the next holder's file.
C13_Witness ==
  /\ proc[2].pc = "stat" /\ fsPath # 0 /\ proc[2].f # fsPath
  /\ HasPidFile(1) /\ proc[1].pc = "idle" /\ fsPath = proc[1].pidFile

\* C14: whenever a process has the PID file open, the content of the file
\* is exactly its process id in decimal followed by one newline, whether the
\* file was created or an existing one reopened.
C14_ContentIsPid ==
  \A p \in Procs :
    (HasPidFile(p) /\ proc[p].pc = "idle")
      => fsData[proc[p].pidFile] = PidString(Getpid(p))

ErrAlreadyOpen == "PID file already opened"

\* C16: a process has at most one PID file open.  OpenPIDFile called with
\* one open returns the error and changes neither the handle, the recorded
\* name, the lock, the file nor the path; called with none open (at the
\* start or after ClosePIDFile) it enters the open protocol.
C16_OneOpenPerProcess ==
  [][\A p \in Procs :
       PidOpenCall(p) =>
         IF HasPidFile(p)
         THEN /\ proc'[p].err = ErrAlreadyOpen
              /\ proc'[p].pc = "idle"
              /\ proc'[p].pidFile = proc[p].pidFile
              /\ proc'[p].pidFileName = proc[p].pidFileName
              /\ proc'[p].f = proc[p].f
              /\ UNCHANGED <<fsPath, fsData, fsLock, nextIno>>
         ELSE proc'[p].pc = "create" /\ proc'[p].err = ""
    ]_vars

\* A second OpenPIDFile was refused while the first file is held.
C16_Witness ==
  /\ proc[1].err = ErrAlreadyOpen /\ HasPidFile(1) /\ proc[1].opens = 2
  /\ fsPath = proc[1].pidFile /\ fsLock[fsPath] = 1
  /\ fsData[fsPath] = PidString(Getpid(1))

\* ------------------------------------------------------------------------
\* PID file at the end of a run

\* A UNIX run that opened the PID file has ended: serviceMain returned and
\* the process exited with a code.
RunEndedWithPidFile ==
  platform = "unix" /\ exitCode # -1 /\ proc[Self].opens > 0

\* No lock on any inode is held by Self.
LockReleased == \A i \in Inodes : fsLock[i] # Self

\* The run changed the root directory or the identity of the process.
MovedOrChanged ==
  w.anchor # PathRoot \/ (TargetUID > 0 /\ w.p.euid = TargetUID)

\* C15 (as stated): whenever a run that opened the PID file ends, with nil
\* or an error, chrooted and identity-changed runs included, the file has
\* been unlinked from its path and its lock released.
C15_UnlinkedAtExit ==
  RunEndedWithPidFile => fsPath = 0 /\ LockReleased

\* C15 (amended): whenever a run that opened the PID file ends, the handle
\* is closed and the lock released; the path is unlinked when the run
\* neither chrooted nor changed identity.
C15_ClosedAtExit ==
  RunEndedWithPidFile =>
    /\ LockReleased
    /\ ~HasPidFile(Self)
    /\ proc[Self].closes = 1
    /\ ~MovedOrChanged => fsPath = 0

\* A run that kept its root and identity ended with the file unlinked and
\* the lock released; C15_WitnessLeft: a chrooted run ended with the file
\* left behind.
C15_Witness ==
  RunEndedWithPidFile /\ ~MovedOrChanged /\ fsPath = 0 /\ LockReleased

C15_WitnessLeft ==
  RunEndedWithPidFile /\ w.anchor # PathRoot /\ exitErr = "" /\ fsPath = 1

\* ------------------------------------------------------------------------
\* Start-up: the sentinel argument

\* The argv the user invoked the program with.
InvocationArgs == mainProc[1].execArgs

\* RunFunc has started in process p.
PayloadStarted(p) == mainProc[p].payload

\* C17 (as stated): for every initial argv, the argv the payload sees never
\* contains the sentinel token.
C17_NoSentinelSeen ==
  \A p \in MainProcs :
    PayloadStarted(p) => ~Contains(mainProc[p].payloadArgs, forkedArg)

\* C17 (amended): for every initial argv that does not contain the sentinel
\* token, the argv the payload sees, in the invoked process or in the child
\* re-executed by Fork, does not contain it.
C17_NoSentinelUnlessGiven ==
  \A p \in MainProcs :
    (PayloadStarted(p) /\ ~Contains(InvocationArgs, forkedArg))
      => ~Contains(mainProc[p].payloadArgs, forkedArg)

\* The payload runs in a re-executed child whose argv carried the sentinel
\* and sees the arguments of the invocation without it.
C17_Witness ==
  \E p \in MainProcs :
    /\ PayloadStarted(p) /\ mainProc[p].parent # 0
    /\ ~Contains(InvocationArgs, forkedArg)
    /\ Len(InvocationArgs) > 1
    /\ Contains(mainProc[p].execArgs, forkedArg)
    /\ Tail(mainProc[p].payloadArgs) = Tail(InvocationArgs)

\* ------------------------------------------------------------------------
\* Start-up: fork

Children(p) == { q \in MainProcs : mainProc[q].parent = p }

\* The invoked process was asked to fork, its argv did not end in the
\* sentinel, and it has gone through the fork step.
Forked ==
  /\ mainProc[1].Config.Fork
  /\ InvocationArgs[Len(InvocationArgs)] # forkedArg
  /\ mainProc[1].pc # "main"

\* Process p did nothing of serviceMain after the fork step.
DidNothingMore(p) ==
  /\ ~mainProc[p].probed /\ ~mainProc[p].daemonized
  /\ ~mainProc[p].pidFileOpened /\ ~mainProc[p].payload

\* Child c spawned no process; once through its own fork step it has
\* os.Args = args and Config.Daemon set.
ChildProceeds(c, args) ==
  /\ mainProc[c].children = 0 /\ Children(c) = {}
  /\ mainProc[c].pc # "main" =>
       /\ mainProc[c].Args = args
       /\ mainProc[c].Config.Daemon

\* C18 (as stated): with fork set and argv not ending in the sentinel,
\* exactly one child is spawned with the original argv plus the sentinel;
\* the parent exits 0 having done nothing more; the child strips the
\* sentinel, spawns no child and goes on with daemon forced.
C18_ForkSpawnsChild ==
  Forked =>
    /\ mainProc[1].exitCode = 0 /\ DidNothingMore(1)
    /\ \E c \in MainProcs :
         /\ Children(1) = {c}
         /\ mainProc[c].execArgs = InvocationArgs \o <<forkedArg>>
         /\ ChildProceeds(c, InvocationArgs)

\* C18 (amended): with fork set and argv not ending in the sentinel, the
\* process does nothing more of serviceMain and either StartProcess failed,
\* no child exists and it exits 1, or exactly one child was spawned, with
\* the absolute path of the executable as argv[0], the other original
\* arguments and the sentinel, and it exits 0; the child strips the
\* sentinel, spawns no child and goes on with daemon forced.
C18_ForkSpawnsChildOrFails ==
  Forked =>
    /\ DidNothingMore(1)
    /\ \/ /\ mainProc[1].exitCode = 1
          /\ Children(1) = {} /\ mainProc[1].children = 0
       \/ /\ mainProc[1].exitCode = 0 /\ mainProc[1].children = 1
          /\ \E c \in MainProcs :
               /\ Children(1) = {c}
               /\ mainProc[c].execArgs =
                    <<exepathAbs>> \o Tail(InvocationArgs) \o <<forkedArg>>
               /\ ChildProceeds(c, <<exepathAbs>> \o Tail(InvocationArgs))

\* The child of a forked invocation has daemonized and runs the payload.
C18_Witness ==
  /\ Forked /\ mainProc[1].exitCode = 0
  /\ \E c \in Children(1) :
       /\ mainProc[c].payload /\ mainProc[c].daemonized
       /\ mainProc[c].Config.Daemon /\ ~mainProc[1].Config.Daemon

\* ------------------------------------------------------------------------
\* Start-up: the decision to daemonize

\* Process p is past the daemonize step of serviceMain.
Decided(p) == mainProc[p].pc \in {"pidfile", "run", "running"}

\* The user asked for daemon mode: daemon or fork is set.
DaemonRequested(p) == mainProc[p].Config.Daemon \/ mainProc[p].Config.Fork

\* C19: for every combination of daemon, fork, stderr and systemd detected,
\* the supervisor daemonizes iff daemon or fork or systemd holds; when it
\* daemonizes, stdin and stdout go to /dev/null, and stderr stays open iff
\* the stderr flag is set or systemd was detected with no daemon mode
\* requested; when it does not daemonize no stdio descriptor is touched.
C19_DaemonizeTable ==
  \A p \in MainProcs :
    Decided(p) =>
      /\ mainProc[p].daemonized <=> (DaemonRequested(p) \/ mainProc[p].systemd)
      /\ mainProc[p].daemonized =>
           /\ mainProc[p].stdio.stdin = "null"
           /\ mainProc[p].stdio.stdout = "null"
           /\ (mainProc[p].stdio.stderr = "inherited") <=>
                (mainProc[p].Config.Stderr
                   \/ (mainProc[p].systemd /\ ~DaemonRequested(p)))
      /\ ~mainProc[p].daemonized => mainProc[p].stdio = InheritedStdio

\* Under systemd with no flag set the process daemonized and kept stderr;
\* C19_WitnessDaemon: in daemon mode without the stderr flag stderr went to
\* /dev/null; C19_WitnessPlain: with nothing set stdio is untouched.
C19_Witness ==
  \E p \in MainProcs :
    /\ Decided(p) /\ mainProc[p].systemd /\ ~DaemonRequested(p)
    /\ ~mainProc[p].Config.Stderr
    /\ mainProc[p].daemonized /\ mainProc[p].stdio.stderr = "inherited"
    /\ mainProc[p].stdio.stdin = "null"

C19_WitnessDaemon ==
  \E p \in MainProcs :
    /\ Decided(p) /\ mainProc[p].systemd /\ mainProc[p].Config.Daemon
    /\ ~mainProc[p].Config.Stderr /\ mainProc[p].stdio.stderr = "null"

C19_WitnessPlain ==
  \E p \in MainProcs :
    /\ Decided(p) /\ ~mainProc[p].systemd /\ ~DaemonRequested(p)
    /\ mainProc[p].stdio = InheritedStdio

\* ------------------------------------------------------------------------
\* systemd readiness

\* C20: a datagram with READY=1 has been sent only if the payload called
\* SetStarted after a successful DropPrivileges (so the payload made two
\* Manager calls at least, dropped is set and the supervisor has seen the
\* started event); as long as DropPrivileges has not succeeded no READY=1
\* is sent.
C20_ReadyOnlyAfterStarted ==
  /\ sdReady => /\ platform = "unix" /\ info.systemd
                /\ started /\ dropped
                /\ callsLeft <= MaxCalls - 2
  /\ ~dropped => ~sdReady

\* READY=1 has been sent under systemd after DropPrivileges and SetStarted.
C20_Witness == sdReady /\ started /\ dropped /\ info.systemd /\ lastErr = ""

\* ------------------------------------------------------------------------
\* The end of the supervisor loop


\* ------------------------------------------------------------------------
\* SpecHarden: the hardening steps of both generations of the package.  A
\* process is linked against one of them: either the payload calls the
\* Manager's DropPrivileges (its orchestrator is daemonDropPrivileges), or
\* the orchestrator of service.v1 is called.
\* ------------------------------------------------------------------------

\* Arguments given to the orchestrator of service.v1.
HardenIds == {<<-1, -1>>, <<7, 8>>, <<0, 0>>, <<7, -1>>}

\* Credentials the process starts with.
HardenStartIds == {0, 5}
HardenCapSets == {{}, CapNames, {"setuid", "setgid"}}

HardenConfs ==
  { Conf(ar, PathNone, FALSE, u, <<>>, c) :
      ar \in BOOLEAN, u \in {<<>>, <<"7">>}, c \in {PathNone, PathEmpty} }

InitHarden ==
  /\ platform = "unix"
  /\ info \in HardenConfs
  /\ \E i \in HardenStartIds, cs \in HardenCapSets :
       w = World(Cred(i, i, i, i, cs))
  /\ InitHandler(MaxDropCalls, 0)
  /\ NoPidFile
  /\ NoStartUp
  /\ runLog = <<>>

\* No call of the Manager's DropPrivileges has been made.
NoManagerCall == runLog # <<>> \/ (~dropped /\ lastErr = "")

\* The payload's call of the Manager's DropPrivileges, in a process that
\* has not called the orchestrator of service.v1.
HardenManagerDrop == runLog = <<>> /\ PayloadDropPrivileges

\* A call of daemon.DropPrivileges of service.v1; runLog holds the latest
\* call: its arguments, the environment's answers and its results.
HardenOrchestratorV1 ==
  /\ PayloadRunning /\ callsLeft > 0 /\ NoManagerCall
  /\ \E ids \in HardenIds, c \in DropChroots, env \in Envs :
       \E r \in {daemonDropPrivilegesV1([w EXCEPT !.ops = <<>>],
                                        ids[1], ids[2], c, env)} :
          /\ w' = r.w
          /\ lastErr' = r.err
          /\ runLog' = << [call |-> "daemon.DropPrivileges", err |-> r.err,
                           chrootErr |-> r.chrootErr, UID |-> ids[1],
                           GID |-> ids[2], chrootDir |-> c, env |-> env] >>
  /\ callsLeft' = callsLeft - 1
  /\ UNCHANGED <<platform, info, dropped, started, stopping, status, stopChan,
                 statusNotifyChan, startedChan, sig, supPc, payloadPc, retErr,
                 exitErr, exitCode, crashed, procTitle, sdReady, sdStatus,
                 scmState, sigsLeft, lastStopRead>>
  /\ UNCHANGED <<pidVars, mainProc>>

NextHarden ==
  \/ HardenManagerDrop
  \/ HardenOrchestratorV1

SpecHarden == InitHarden /\ [][NextHarden]_vars


\* ------------------------------------------------------------------------
\* SpecOrch: direct calls of the orchestrator daemon.DropPrivileges, with
\* every combination of arguments, starting credentials and answers of the
\* environment.
\* ------------------------------------------------------------------------

InitOrch ==
  /\ platform = "unix"
  /\ info = Conf(FALSE, PathNone, FALSE, <<>>, <<>>, PathNone)
  /\ \E i \in HardenStartIds, cs \in DropCapSets :
       w = World(Cred(i, i, i, i, cs))
  /\ InitHandler(MaxDropCalls, 0)
  /\ NoPidFile
  /\ NoStartUp
  /\ runLog = <<>>

\* A call of daemon.DropPrivileges; runLog holds the latest call: its
\* arguments, the environment's answers, its results and the world it
\* started from.
OrchDropPrivileges ==
  /\ PayloadRunning /\ callsLeft > 0
  /\ \E ids \in HardenIds, c \in DropChroots, env \in Envs :
       \E r \in {daemonDropPrivileges([w EXCEPT !.ops = <<>>],
                                      ids[1], ids[2], c, env)} :
          /\ w' = r.w
          /\ lastErr' = r.err
          /\ runLog' = << [call |-> "daemon.DropPrivileges", err |-> r.err,
                           chrootErr |-> r.chrootErr, UID |-> ids[1],
                           GID |-> ids[2], chrootDir |-> c, env |-> env,
                           from |-> [w EXCEPT !.ops = <<>>]] >>
  /\ callsLeft' = callsLeft - 1
  /\ UNCHANGED <<platform, info, dropped, started, stopping, status, stopChan,
                 statusNotifyChan, startedChan, sig, supPc, payloadPc, retErr,
                 exitErr, exitCode, crashed, procTitle, sdReady, sdStatus,
                 scmState, sigsLeft, lastStopRead>>
  /\ UNCHANGED <<pidVars, mainProc>>

NextOrch == OrchDropPrivileges

SpecOrch == InitOrch /\ [][NextOrch]_vars


\* ------------------------------------------------------------------------
\* SpecParse: ParseUID and ParseGID applied to numerals: small numbers, the
\* numbers around 2^31, numbers of more digits, and all of them negated.
\* ------------------------------------------------------------------------

\* The small numbers parsed are 0..MaxNum.
MaxNum == 40

\* The numbers 2147483640..2147483647 (the largest ones that fit 31 bits).
EdgeNumbers == { (MaxUint31 \div 10) * 10 + d : d \in 0..(MaxUint31 % 10) }

ParseNumbers == (0..MaxNum) \cup EdgeNumbers

InRangeNumerals == { FormatInt(n) : n \in ParseNumbers }

\* Numerals of 2147483648, 2147483649 and of ten times the edge numbers.
OverNumerals ==
  { FormatInt(MaxUint31 \div 10) \o <<Digits[i]>> :
      i \in ((MaxUint31 % 10) + 2)..10 }
  \cup { FormatInt(n) \o <<"0">> : n \in EdgeNumbers }

NegNumerals == { <<"-">> \o s : s \in InRangeNumerals \cup OverNumerals }

ParseInputs == InRangeNumerals \cup OverNumerals \cup NegNumerals

InitParse ==
  /\ platform = "unix"
  /\ \E s \in ParseInputs : info = Conf(FALSE, PathNone, FALSE, s, s, PathNone)
  /\ \E cgo \in BOOLEAN : w = [World(RootCred) EXCEPT !.cgo = cgo]
  /\ InitHandler(MaxDropCalls, 0)
  /\ NoPidFile
  /\ NoStartUp
  /\ runLog = <<>>

\* The call named call has been made.
Parsed(call) == \E i \in 1..Len(runLog) : runLog[i].call = call

ParseDone(call, r) ==
  /\ runLog' = Append(runLog, [call |-> call, err |-> r.err, n |-> r.n])
  /\ UNCHANGED <<platform, info, w, dropped, started, stopping, status,
                 stopChan, statusNotifyChan, startedChan, sig, supPc,
                 payloadPc, retErr, exitErr, exitCode, crashed, procTitle,
                 sdReady, sdStatus, scmState, callsLeft, sigsLeft, lastErr,
                 lastStopRead>>
  /\ UNCHANGED <<pidVars, mainProc>>

\* passwd.ParseUID(uid)
ParseUIDCall ==
  /\ ~Parsed("ParseUID")
  /\ ParseDone("ParseUID", ParseUIDBuild(w.cgo, info.UID))

\* passwd.ParseGID(gid)
ParseGIDCall ==
  /\ ~Parsed("ParseGID")
  /\ ParseDone("ParseGID", ParseGIDBuild(w.cgo, info.GID))

NextParse ==
  \/ ParseUIDCall
  \/ ParseGIDCall

SpecParse == InitParse /\ [][NextParse]_vars


\* ------------------------------------------------------------------------
\* SpecStatus: the status string, with ihandler.SetStatus taken apart into
\* its steps: Lock, the store, Unlock and the channel operation.  The store
\* of a string is two machine words; a reader that holds no lock can see
\* the old value, the new one, or a mix of both.
\* ------------------------------------------------------------------------

\* The payload is inside SetStatus(s), holding statusMutex.
WritingPc == [s \in Statuses |-> IF s = "a" THEN "writing a" ELSE "writing b"]

\* A string made of the pointer of one value and the length of another.
TornStatus == "torn"

PayloadWriting == \E s \in Statuses : payloadPc = WritingPc[s]

\* The holder of statusMutex: only SetStatus ever locks it.
MutexHolder == IF PayloadWriting THEN "payload" ELSE "none"

\* The supervisor is in a case body that calls updateStatus, which reads
\* h.status.
SupReading ==
  /\ platform = "unix" /\ supPc \notin {"select", "exited"}
  /\ CaseBody(supPc).publish

StatusFrame ==
  /\ UNCHANGED <<platform, info, w, dropped, started, stopping, stopChan,
                 startedChan, sig, supPc, retErr, exitErr, exitCode, crashed,
                 procTitle, sdReady, sdStatus, scmState, sigsLeft, lastErr,
                 lastStopRead>>
  /\ UNCHANGED <<pidVars, mainProc, runLog>>

\* h.statusMutex.Lock()
StatusLock ==
  /\ PayloadRunning /\ callsLeft > 0
  /\ \E s \in Statuses : payloadPc' = WritingPc[s]
  /\ callsLeft' = callsLeft - 1
  /\ UNCHANGED <<status, statusNotifyChan>>
  /\ StatusFrame

\* h.status = status: one word, then the other.
StatusStore ==
  /\ Alive
  /\ \E s \in Statuses :
       /\ payloadPc = WritingPc[s] /\ status # s
       /\ status' \in (IF status = TornStatus THEN {s} ELSE {TornStatus, s})
  /\ UNCHANGED <<payloadPc, callsLeft, statusNotifyChan>>
  /\ StatusFrame

\* h.statusMutex.Unlock() and the select on statusNotifyChan.
StatusUnlock ==
  /\ Alive
  /\ \E s \in Statuses : payloadPc = WritingPc[s] /\ status = s
  /\ payloadPc' = "running"
  /\ statusNotifyChan' = SetStatusNotify(statusNotifyChan)
  /\ UNCHANGED <<status, callsLeft>>
  /\ StatusFrame

InitStatus ==
  /\ platform = "unix"
  /\ info = Conf(FALSE, PathNone, TRUE, NameBob, <<>>, PathEmpty)
  /\ w = World(RootCred)
  /\ NoPidFile
  /\ InitHandler(MaxCalls, MaxSignals)
  /\ NoStartUp
  /\ runLog = <<>>

NextStatus ==
  \/ StatusLock
  \/ StatusStore
  \/ StatusUnlock
  \/ PayloadDropPrivileges
  \/ PayloadSetStarted
  \/ PayloadReturn
  \/ OsSignal
  \/ SupSelect
  \/ SupHandle
  \/ MainExit

SpecStatus == InitStatus /\ [][NextStatus]_vars


\* ------------------------------------------------------------------------
\* SpecBoot: serviceMain from its first line, followed by the payload's
\* DropPrivileges calls in the process that reached runInteractively.
\* ------------------------------------------------------------------------

InitBoot ==
  /\ platform = "unix"
  /\ info = Conf(FALSE, PathNone, FALSE, NameBob, <<>>, PathEmpty)
  /\ w = World(RootCred)
  /\ InitHandler(MaxDropCalls, 0)
  /\ NoPidFile
  /\ \E args \in InitialArgs, config \in MainConfigs, socket \in BOOLEAN :
       mainProc = [p \in MainProcs |->
                     IF p = 1 THEN NewMainProc(args, config, socket, 0)
                     ELSE NoMainProc]
  /\ runLog = <<>>

\* RunFunc, started by runInteractively, calls smgr.DropPrivileges().
BootDropPrivileges ==
  /\ \E p \in MainProcs : mainProc[p].pc = "running"
  /\ PayloadDropPrivileges

NextBoot ==
  \/ \E p \in MainProcs : MainFork(p)
  \/ \E p \in MainProcs : MainInit(p)
  \/ \E p \in MainProcs : MainDaemonize(p)
  \/ \E p \in MainProcs : MainOpenPIDFile(p)
  \/ \E p \in MainProcs : MainRun(p)
  \/ \E p \in MainProcs : MainReturn(p)
  \/ BootDropPrivileges

SpecBoot == InitBoot /\ [][NextBoot]_vars


\* ------------------------------------------------------------------------
\* SpecNotify: the probe of serviceMain, then the run, with every call of
\* systemdUpdateStatus going through sdnotify.SdNotify in process 1.
\* ------------------------------------------------------------------------

NotifyEnvs == {"unset", "dead", "live"}

InitNotify ==
  /\ platform = "unix"
  /\ info = Conf(FALSE, PathNone, FALSE, NameBob, <<>>, PathEmpty)
  /\ w = World(RootCred)
  /\ NoPidFile
  /\ InitHandler(MaxCalls, MaxSignals)
  /\ \E env \in NotifyEnvs :
       mainProc = [p \in MainProcs |->
                     IF p = 1
                     THEN [NoMainProc EXCEPT !.pc = "init", !.notifyEnv = env]
                     ELSE NoMainProc]
  /\ runLog = <<>>


\* Mutant of NotifyProbe: info.systemd is set whatever the probe returned.
NotifyProbe_IgnoreErr ==
  /\ mainProc[1].pc = "init"
  /\ \E writeOk \in BOOLEAN :
       \E r \in {SdNotify(mainProc[1].sdNotify, mainProc[1].notifyEnv, writeOk)} :
         /\ mainProc' = [mainProc EXCEPT ![1].pc = "running",
                                         ![1].probed = TRUE,
                                         ![1].systemd = TRUE,
                                         ![1].payload = TRUE,
                                         ![1].sdNotify = r.sd]
         /\ info' = [info EXCEPT !.systemd = TRUE]
  /\ UNCHANGED <<platform, w, dropped, started, stopping, status, stopChan,
                 statusNotifyChan, startedChan, sig, supPc, payloadPc, retErr,
                 exitErr, exitCode, crashed, procTitle, sdReady, sdStatus,
                 scmState, callsLeft, sigsLeft, lastErr, lastStopRead>>
  /\ UNCHANGED <<pidVars, runLog>>

\* serviceMain: err = systemdUpdateStatus("\n"); info.systemd = true when
\* it is nil.  runInteractively follows.
NotifyProbe ==
  /\ mainProc[1].pc = "init"
  /\ \E writeOk \in BOOLEAN :
       \E r \in {SdNotify(mainProc[1].sdNotify, mainProc[1].notifyEnv, writeOk)} :
         /\ mainProc' = [mainProc EXCEPT ![1].pc = "running",
                                         ![1].probed = TRUE,
                                         ![1].systemd = (r.err = ""),
                                         ![1].payload = TRUE,
                                         ![1].sdNotify = r.sd]
         /\ info' = [info EXCEPT !.systemd = (r.err = "")]
  /\ UNCHANGED <<platform, w, dropped, started, stopping, status, stopChan,
                 statusNotifyChan, startedChan, sig, supPc, payloadPc, retErr,
                 exitErr, exitCode, crashed, procTitle, sdReady, sdStatus,
                 scmState, callsLeft, sigsLeft, lastErr, lastStopRead>>
  /\ UNCHANGED <<pidVars, runLog>>

\* The environment: NOTIFY_SOCKET is set or unset, or the socket it names
\* appears or goes away.
NotifyEnvChange ==
  /\ \E env \in NotifyEnvs \ {mainProc[1].notifyEnv} :
       mainProc' = [mainProc EXCEPT ![1].notifyEnv = env]
  /\ UNCHANGED <<lifecycleVars, pidVars, runLog>>

NotifyRunning == mainProc[1].pc = "running"

\* The body of the chosen case; updateStatus calls systemdUpdateStatus when
\* info.systemd is set and ignores its error.
NotifySupHandle ==
  /\ NotifyRunning
  /\ Alive /\ supPc \notin {"select", "exited"}
  /\ \E h \in {CaseBody(supPc)}, writeOk \in BOOLEAN :
       \E r \in {IF h.publish /\ info.systemd
                 THEN SdNotify(mainProc[1].sdNotify, mainProc[1].notifyEnv,
                               writeOk)
                 ELSE [sd |-> mainProc[1].sdNotify, err |-> "not called"]} :
        /\ started' = h.started
        /\ stopping' = h.stopping
        /\ stopChan' = h.stopChan
        /\ crashed' = h.crashed
        /\ scmState' = h.scmState
        /\ sdReady' = (sdReady \/ (r.err = "" /\ ReadyLine(info.systemd, h.started)))
        /\ sdStatus' = IF r.err = "" /\ status # "" THEN status ELSE sdStatus
        /\ procTitle' = IF h.publish /\ status # "" THEN status ELSE procTitle
        /\ mainProc' = [mainProc EXCEPT ![1].sdNotify = r.sd]
  /\ supPc' = "select"
  /\ UNCHANGED <<platform, info, w, dropped, status, statusNotifyChan,
                 startedChan, sig, payloadPc, retErr, exitErr, exitCode,
                 callsLeft, sigsLeft, lastErr, lastStopRead>>
  /\ UNCHANGED <<pidVars, runLog>>

NextNotify ==
  \/ NotifyProbe
  \/ NotifyEnvChange
  \/ NotifyRunning /\ PayloadDropPrivileges
  \/ NotifyRunning /\ PayloadSetStarted
  \/ NotifyRunning /\ PayloadSetStatus
  \/ NotifyRunning /\ PayloadReturn
  \/ NotifyRunning /\ OsSignal
  \/ NotifyRunning /\ SupSelect
  \/ NotifySupHandle
  \/ NotifyRunning /\ MainExit

SpecNotify == InitNotify /\ [][NextNotify]_vars


\* ------------------------------------------------------------------------
\* SpecWin: handler.Execute with a payload whose SetStarted calls are
\* logged in runLog.
\* ------------------------------------------------------------------------

InitWin ==
  /\ platform = "windows"
  /\ info = WindowsRun[1] /\ w = World(WindowsRun[2])
  /\ NoPidFile
  /\ InitHandler(MaxCalls, MaxSignals)
  /\ NoStartUp
  /\ runLog = <<>>

\* smgr.SetStarted()
WinSetStarted ==
  /\ PayloadRunning /\ callsLeft > 0
  /\ IF ~dropped
     THEN /\ crashed' = "service must call DropPrivileges before calling SetStarted"
          /\ UNCHANGED <<startedChan, runLog>>
     ELSE /\ startedChan' = NonBlockingSend(startedChan, NotifyChanCap)
          /\ runLog' = Append(runLog, [call |-> "SetStarted", err |-> ""])
          /\ UNCHANGED crashed
  /\ callsLeft' = callsLeft - 1
  /\ UNCHANGED <<platform, info, w, dropped, started, stopping, status,
                 stopChan, statusNotifyChan, sig, supPc, payloadPc, retErr,
                 exitErr, exitCode, procTitle, sdReady, sdStatus, scmState,
                 sigsLeft, lastErr, lastStopRead>>
  /\ UNCHANGED <<pidVars, mainProc>>

NextWin ==
  \/ PayloadDropPrivileges
  \/ WinSetStarted
  \/ PayloadReadStop
  \/ PayloadReturn
  \/ OsControl
  \/ SupSelect
  \/ SupHandle
  \/ MainExit

SpecWin == InitWin /\ [][NextWin]_vars


\* A process inside openPIDFile keeps running: each step of the loop is
\* taken once it can be.  Calling OpenPIDFile or ClosePIDFile is up to the
\* processes, and they do so finitely often.
FairSpecPid ==
  /\ SpecPid
  /\ \A p \in Procs :
       /\ WF_vars(PidCreate(p)) /\ WF_vars(PidOpenExisting(p))
       /\ WF_vars(PidLock(p)) /\ WF_vars(PidStat(p))

\* The step on which the supervisor loop ends.
LoopEnds == supPc # "exited" /\ supPc' = "exited"

\* C21: the supervisor loop ends only on receiving the return value RunFunc
\* is sending on doneChan, never from the body of a signal, started or
\* status case; what runInteractively returns is that value; and the
\* process exits 0 iff RunFunc returned nil and 1 otherwise.
C21_LoopEndsOnReturn ==
  /\ [][LoopEnds => /\ supPc = "select" /\ payloadPc = "sending"
                    /\ exitErr' = retErr /\ retErr' = retErr]_vars
  /\ [](supPc = "exited" => payloadPc = "done" /\ exitErr = retErr)
  /\ [](platform = "unix" /\ exitCode # -1 =>
          /\ supPc = "exited"
          /\ exitCode = (IF retErr = "" THEN 0 ELSE 1))

\* A run that handled a signal and a started event went on until RunFunc
\* returned an error, and exited 1; C21_WitnessNil: a run exited 0.
C21_Witness ==
  /\ platform = "unix" /\ exitCode = 1 /\ retErr = "payload error"
  /\ stopping /\ started

C21_WitnessNil ==
  platform = "unix" /\ exitCode = 0 /\ retErr = "" /\ stopping

\* ------------------------------------------------------------------------
\* Windows: states published to the service control manager

\* The place of a state in StartPending, Running, StopPending, Stopped.
ScmRank(s) ==
  IF s = "StartPending" THEN 1
  ELSE IF s = "Running" THEN 2
  ELSE IF s = "StopPending" THEN 3
  ELSE IF s = "Stopped" THEN 4
  ELSE 0

\* C23: on the Windows path no state is published after a state that comes
\* later in the order StartPending, Running, StopPending, Stopped, for any
\* interleaving of Stop/Shutdown requests with the payload's SetStarted; in
\* particular Running is never published after StopPending.
C23_ScmOrder ==
  [][platform = "windows" => ScmRank(scmState') >= ScmRank(scmState)]_vars

\* C24: on the Windows path Execute returns only after the payload has
\* returned; its exit code is 1 iff the payload's error is non-nil and 0
\* otherwise; and when it returns 0 the Stopped state has been published.
C24_ExecuteResult ==
  (platform = "windows" /\ exitCode # -1) =>
    /\ payloadPc = "done" /\ supPc = "exited" /\ exitErr = retErr
    /\ exitCode = 1 <=> retErr # ""
    /\ exitCode = 0 <=> retErr = ""
    /\ exitCode = 0 => scmState = "Stopped"

\* After a Stop request the payload returned nil: Execute returned 0 and
\* Stopped is published; C24_WitnessError: the payload returned an error
\* and Execute returned 1.
C24_Witness ==
  /\ platform = "windows" /\ exitCode = 0 /\ stopping /\ started
  /\ scmState = "Stopped"

C24_WitnessError ==
  platform = "windows" /\ exitCode = 1 /\ retErr = "payload error"

\* ------------------------------------------------------------------------
\* The RunFunc made from NewFunc: the order of its calls

RunOrder == <<"NewFunc", "DropPrivileges", "Start", "SetStarted", "SetStatus">>

\* The RunFunc has returned.
RunReturned == payloadPc \in {"sending", "done"}

LastCall == runLog[Len(runLog)]

\* C22: the RunFunc made from NewFunc calls NewFunc, DropPrivileges, Start,
\* SetStarted, SetStatus in that order; Start only after DropPrivileges
\* succeeded and SetStarted only after Start succeeded; a failed NewFunc,
\* DropPrivileges or Start is the last call and its error is returned; Stop
\* is called at most once, as the last call, only with the stop channel
\* closed, and once the RunFunc has returned without such a failure Stop
\* has been called and its error is what was returned.
C22_RunFuncOrder ==
  /\ \A i \in 1..Len(runLog) :
       /\ i <= 5 => runLog[i].call = RunOrder[i]
       /\ i > 5 => runLog[i].call \in {"SetStatus", "Stop"}
       /\ runLog[i].err # "" => i = Len(runLog)
       /\ runLog[i].call = "Start" =>
            dropped /\ runLog[i - 1] = [call |-> "DropPrivileges", err |-> ""]
       /\ runLog[i].call = "SetStarted" =>
            runLog[i - 1] = [call |-> "Start", err |-> ""]
       /\ runLog[i].call = "Stop" =>
            i = Len(runLog) /\ stopChan = "closed" /\ stopping
  /\ RunReturned =>
       /\ Len(runLog) > 0 /\ retErr = LastCall.err
       /\ \/ LastCall.call = "Stop"
          \/ LastCall.call \in {"NewFunc", "DropPrivileges", "Start"}
               /\ LastCall.err # ""

\* The whole sequence was run and Stop's error returned; C22_WitnessStart:
\* Start failed, its error was returned and nothing more was called;
\* C22_WitnessDrop: the same for DropPrivileges.
C22_Witness ==
  /\ RunReturned /\ Len(runLog) > 6 /\ LastCall = [call |-> "Stop", err |-> "stop error"]
  /\ retErr = "stop error" /\ runLog[6].call = "SetStatus"

C22_WitnessStart ==
  /\ RunReturned /\ Len(runLog) = 3 /\ retErr = "start error" /\ ~started
  /\ stopChan = "closed"

C22_WitnessDrop ==
  /\ RunReturned /\ Len(runLog) = 2 /\ retErr # "" /\ retErr = lastErr
  /\ stopChan = "closed" /\ exitCode = 1

\* ------------------------------------------------------------------------
\* The build without cgo, configured with a user name

\* The run is one of the build without cgo whose uid is a name.
NoCgoNameRun ==
  platform = "unix" /\ ~w.cgo /\ info.UID # <<>> /\ ~ParseUint31(info.UID).ok

\* C25 (as stated): with a user name for uid and no name resolution,
\* identity parsing fails and the process exits 1 before the RunFunc is
\* invoked: when the parse has failed the RunFunc has made no call, and the
\* run ends with exit code 1.
C25_FailsBeforeRunFunc ==
  NoCgoNameRun =>
    /\ lastErr = errNoCgo => runLog = <<>>
    /\ exitCode # -1 => exitCode = 1 /\ runLog = <<>>

\* C25 (amended): with a user name for uid and no name resolution, the
\* parse fails inside the DropPrivileges the RunFunc calls, after NewFunc:
\* DropPrivileges returns the no-cgo error, changes neither the identity
\* nor the root directory and leaves dropped unset; the RunFunc made from NewFunc returns that error
\* without calling Start, SetStarted or Stop, and the process exits 1.
C25_FailsInsideDropPrivileges ==
  NoCgoNameRun =>
    /\ ~dropped /\ ~started
    /\ w.p.ruid = 0 /\ w.p.euid = 0 /\ w.p.rgid = 0 /\ w.p.egid = 0
    /\ w.p.caps = CapNames /\ w.anchor = PathRoot
    /\ \A i \in 1..Len(w.ops) : w.ops[i].op \in {"no_new_privs", "securebits"}
    /\ Len(runLog) <= 2
    /\ Len(runLog) = 2 =>
         /\ runLog[1] = [call |-> "NewFunc", err |-> ""]
         /\ runLog[2] = [call |-> "DropPrivileges", err |-> errNoCgo]
         /\ lastErr = errNoCgo /\ retErr = errNoCgo /\ RunReturned
    /\ lastErr # "" => lastErr = errNoCgo /\ Len(runLog) = 2
    /\ exitCode # -1 => exitCode = 1

\* The parse failed in DropPrivileges and the process exited 1.
C25_Witness ==
  /\ NoCgoNameRun /\ Len(runLog) = 2 /\ lastErr = errNoCgo
  /\ exitCode = 1 /\ exitErr = errNoCgo

\* ------------------------------------------------------------------------
\* UID and GID: both or neither

\* A DropPrivileges call succeeded in this step.
DropSucceeds == ~dropped /\ dropped'

\* A UID with an empty GID: the successful call has written the primary
\* GID of the UID into the configuration as the target GID, and a call
\* that changed the identity has made it the process's group.
AutoResolves ==
  [][DropSucceeds /\ info.UID # <<>> /\ info.GID = <<>> =>
       \E g \in {GetGIDForUIDBuild(w.cgo, info.UID)} :
          /\ g.err = ""
          /\ info'.GID = FormatInt(g.n)
          /\ w'.p.ruid # w.p.ruid => w'.p.rgid = g.n /\ w'.p.egid = g.n]_vars

\* A GID with an empty UID: no call succeeds.
GidOnlyRejected ==
  [][info.UID = <<>> /\ info.GID # <<>> => ~DropSucceeds]_vars

\* C26: after autoresolution uid and gid are both empty or both non-empty:
\* a uid with an empty gid takes the primary GID of the uid as the target
\* gid, and DropPrivileges returns an error for a gid with an empty uid and
\* never succeeds while ignoring the gid.
C26_UidGidPresence == AutoResolves /\ GidOnlyRejected

\* ------------------------------------------------------------------------
\* Best-effort hardening

HardeningOps == {"no_new_privs", "securebits"}

\* The operations of a log that are not hardening steps.
Mandatory(ops) == SelectSeq(ops, LAMBDA o : o.op \notin HardeningOps)

\* The credentials without the two hardening flags.
Identity(p) == [p EXCEPT !.nnp = FALSE, !.secbits = FALSE]

\* The Manager's DropPrivileges returned what it returns when the setuid
\* ban is switched off (NoBanSuid), performed the same other operations
\* and left the same identity.
ManagerIgnoresHardening ==
  [][runLog' = <<>> /\ callsLeft' # callsLeft =>
       \E env \in Envs :
         \E b \in {DropPrivilegesUnix(dropped, [info EXCEPT !.NoBanSuid = TRUE],
                                      [w EXCEPT !.ops = <<>>], env)} :
            /\ lastErr' = b.err /\ dropped' = b.dropped
            /\ Mandatory(w'.ops) = b.w.ops
            /\ Identity(w'.p) = Identity(b.w.p) /\ w'.anchor = b.w.anchor]_vars

\* The orchestrator of service.v1 returned what its mandatory steps alone
\* return, performed them all and left the same identity.
OrchestratorV1IgnoresHardening ==
  [][runLog' # <<>> /\ callsLeft' # callsLeft =>
       \E c \in {runLog'[1]} :
         \E b \in {mandatoryStepsV1([w EXCEPT !.ops = <<>>], c.UID, c.GID,
                                    c.chrootDir, c.env)} :
            /\ lastErr' = b.err /\ c.chrootErr = b.chrootErr
            /\ Mandatory(w'.ops) = b.w.ops
            /\ Identity(w'.p) = Identity(b.w.p) /\ w'.anchor = b.w.anchor]_vars

\* C27: a failed best-effort hardening step (securebits, NO_NEW_PRIVS)
\* never makes the orchestrator's or the Manager's DropPrivileges return an
\* error and never keeps the mandatory steps (chroot, identity change,
\* verification) from running: every call returns what it returns without
\* the hardening steps and performs the same mandatory operations.
C27_HardeningBestEffort ==
  ManagerIgnoresHardening /\ OrchestratorV1IgnoresHardening

\* ------------------------------------------------------------------------
\* SetStarted and SetStatus never block

\* The payload is in RunFunc and may make a further Manager call.
PayloadMayCall == PayloadRunning /\ callsLeft > 0

\* C28: SetStarted and SetStatus never block the payload: whatever the
\* supervisor is doing and whatever is queued, a payload that makes one of
\* the two calls completes it at once; at most one started event and at
\* most one status notification is ever queued.
C28_NeverBlocks ==
  /\ startedChan <= 1 /\ statusNotifyChan <= 1
  /\ PayloadMayCall => (ENABLED PayloadSetStarted) /\ (ENABLED PayloadSetStatus)

\* A started event is queued, the supervisor is busy with another case, and
\* the payload can call again.
C28_Witness ==
  /\ platform = "unix" /\ PayloadMayCall /\ startedChan = 1
  /\ supPc \notin {"select", "started", "exited"}

\* ------------------------------------------------------------------------
\* chroot "/" and chroot ""

\* The latest call of the orchestrator, or none.
OrchCalled == runLog # <<>> /\ runLog[1].call = "daemon.DropPrivileges"

\* The operations of the chroot step proper.
ChrootOps == {"resolver", "chroot"}

\* C29: for the same uid, gid and starting state, the orchestrator run
\* with chroot "/" performs the same sequence of operations, returns the
\* same (chrootErr, err) and leaves the same state as with chroot "", and
\* in neither case is the resolver warmed or the chroot system call made.
C29_RootIsNoChroot ==
  OrchCalled /\ runLog[1].chrootDir \in {PathRoot, PathNone} =>
    \E c \in {runLog[1]} :
      \E o \in {daemonDropPrivileges(c.from, c.UID, c.GID,
                  IF c.chrootDir = PathRoot THEN PathNone ELSE PathRoot,
                  c.env)} :
        /\ w = o.w /\ lastErr = o.err /\ c.chrootErr = o.chrootErr
        /\ c.chrootErr = ""
        /\ \A i \in 1..Len(w.ops) : w.ops[i].op \notin ChrootOps
        /\ w.anchor = c.from.anchor

\* The orchestrator was run with "/" and changed the identity without any
\* chroot; C29_WitnessNone: the same with "".
C29_Witness ==
  /\ OrchCalled /\ runLog[1].chrootDir = PathRoot /\ lastErr = ""
  /\ runLog[1].UID > 0 /\ w.p.ruid = runLog[1].UID /\ runLog[1].from.p.ruid = 0

C29_WitnessNone ==
  /\ OrchCalled /\ runLog[1].chrootDir = PathNone /\ lastErr = ""
  /\ runLog[1].UID > 0 /\ w.p.ruid = runLog[1].UID /\ runLog[1].from.p.ruid = 0

\* ------------------------------------------------------------------------
\* Numeric identities

\* What the name lookup of the build returns for s.
NameLookup(call, s) ==
  IF call = "ParseUID"
  THEN IF w.cgo THEN parseUserName(s) ELSE parseUserNameNoCgo(s)
  ELSE IF w.cgo THEN parseGroupName(s) ELSE parseGroupNameNoCgo(s)

\* C30: ParseUID and ParseGID return n for the decimal string of every n
\* with 0 <= n < 2^31; a numeral of 2^31 or more, or a negative numeral, is
\* never returned as a number but handed to the name lookup, so that a
\* numeric parse never yields -1 or another negative id.
C30_NumericParse ==
  \A i \in 1..Len(runLog) :
    /\ \A n \in ParseNumbers :
         info.UID = FormatInt(n) => runLog[i].err = "" /\ runLog[i].n = n
    /\ info.UID \in OverNumerals \cup NegNumerals =>
         /\ runLog[i].err = NameLookup(runLog[i].call, info.UID).err
         /\ runLog[i].n = NameLookup(runLog[i].call, info.UID).n
         /\ runLog[i].err # ""
    /\ runLog[i].n >= 0

\* 2147483647 was parsed as a number; C30_WitnessOver: 2147483648 was
\* handed to the name lookup; C30_WitnessNeg: so was -1.
C30_Witness ==
  /\ Len(runLog) = 2 /\ info.UID = FormatInt(MaxUint31)
  /\ runLog[1].n = MaxUint31 /\ runLog[2].n = MaxUint31

C30_WitnessOver ==
  /\ Len(runLog) = 2
  /\ info.UID = FormatInt(MaxUint31 \div 10) \o <<Digits[(MaxUint31 % 10) + 2]>>
  /\ runLog[1].err # "" /\ runLog[2].err # ""

C30_WitnessNeg ==
  /\ Len(runLog) = 2 /\ info.UID = <<"-", "1">>
  /\ runLog[1].err # "" /\ runLog[2].err # ""

\* ------------------------------------------------------------------------
\* The status mutex

\* C31: the supervisor reads the status string and the payload writes it
\* only while holding the status mutex, so in no reachable state does the
\* supervisor read the status while the payload is writing it.
C31_StatusUnderMutex ==
  /\ SupReading => MutexHolder = "supervisor"
  /\ ~(SupReading /\ PayloadWriting)

\* ------------------------------------------------------------------------
\* Capabilities and the verification

\* The latest call changed the user id and left no id zero.
IdentityChanged ==
  /\ \E i \in 1..Len(w.ops) : w.ops[i].op = "setresuid" /\ w.ops[i].err = ""
  /\ ~isRoot(w.p)

\* C32: in the drop sequence all capabilities are dropped before the
\* verification runs, so that a call whose identity change succeeded (all
\* ids non-zero) passes the verification even when capabilities were left
\* over by the identity change.
C32_CapsDroppedBeforeVerify ==
  \A i \in 1..Len(w.ops) :
    w.ops[i].op = "verify" =>
      /\ \E j \in 1..(i - 1) : w.ops[j].op = "capsdrop"
      /\ IdentityChanged => w.ops[i].err = ""

\* ------------------------------------------------------------------------
\* The list given to setgroups

\* C33: whenever the orchestrator calls setgroups, the list passed is the
\* supplementary GIDs of the target gid followed by the target gid itself;
\* it was computed before the chroot attempt; and when the lookup of the
\* supplementary GIDs fails the call returns an error at once, without a
\* chroot attempt or any identity change.
C33_SetgroupsList ==
  OrchCalled =>
    \A i \in 1..Len(w.ops) :
      /\ w.ops[i].op = "setgroups" =>
           /\ w.ops[i].list =
                Append(GetExtraGIDsBuild(w.cgo, runLog[1].GID, FALSE).gids,
                       runLog[1].GID)
           /\ \E k \in 1..Len(w.ops[i].list) : w.ops[i].list[k] = runLog[1].GID
           /\ \E j \in 1..(i - 1), c \in 1..(i - 1) :
                /\ j < c
                /\ w.ops[j].op = "getextragids" /\ w.ops[j].err = ""
                /\ w.ops[c].op = "tryChroot"
      /\ (w.ops[i].op = "getextragids" /\ w.ops[i].err # "") =>
           /\ Len(w.ops) = 1 /\ lastErr # ""
           /\ w.p = runLog[1].from.p /\ w.anchor = runLog[1].from.anchor

\* setgroups was called with the supplementary GID 9 and the target GID 8;
\* C33_WitnessFail: the lookup failed and the call ended there.
C33_Witness ==
  /\ OrchCalled /\ runLog[1].GID = 8
  /\ \E i \in 1..Len(w.ops) :
       w.ops[i].op = "setgroups" /\ w.ops[i].list = <<9, 8>> /\ w.ops[i].err = ""

C33_WitnessFail ==
  /\ OrchCalled /\ runLog[1].env.extraGidsFail /\ runLog[1].chrootDir = PathEmpty
  /\ Len(w.ops) = 1 /\ w.ops[1].op = "getextragids" /\ lastErr # ""

\* ------------------------------------------------------------------------
\* Daemonizing before the privilege drop

\* A chroot or an identity change has been performed, now or earlier.
PrivilegeOpDone ==
  \/ w.anchor # PathRoot \/ ~isRoot(w.p)
  \/ \E i \in 1..Len(w.ops) :
       w.ops[i].op \in {"chroot", "setgroups", "setresgid", "setresuid"}

\* C34: in every run that daemonizes (daemon or fork requested, or systemd
\* detected), stdin and stdout, and stderr unless it is kept, have been
\* redirected to /dev/null before any chroot or identity change is
\* performed: daemonizing is done by serviceMain before RunFunc, and hence
\* DropPrivileges, starts.
C34_DaemonizeBeforeDrop ==
  PrivilegeOpDone =>
    \E p \in MainProcs :
      /\ PayloadStarted(p)
      /\ (DaemonRequested(p) \/ mainProc[p].systemd) =>
           /\ mainProc[p].stdio.stdin = "null"
           /\ mainProc[p].stdio.stdout = "null"
           /\ mainProc[p].stdio.stderr = "null"
                \/ mainProc[p].Config.Stderr
                \/ (mainProc[p].systemd /\ ~DaemonRequested(p))

\* A daemonized process has chrooted and changed its identity;
\* C34_WitnessFork: so has the child of a fork.
C34_Witness ==
  /\ w.anchor = PathEmpty /\ w.p.ruid = 7 /\ dropped
  /\ \E p \in MainProcs :
       /\ PayloadStarted(p) /\ mainProc[p].Config.Daemon
       /\ mainProc[p].stdio.stderr = "null"

C34_WitnessFork ==
  /\ w.anchor = PathEmpty /\ w.p.ruid = 7 /\ dropped
  /\ \E p \in MainProcs :
       /\ PayloadStarted(p) /\ mainProc[p].parent # 0
       /\ mainProc[p].stdio.stdin = "null"

\* ------------------------------------------------------------------------
\* The notify socket

\* The first attempt of the process was made and gave no socket.
FirstDialFailed == mainProc[1].sdNotify.inited /\ ~mainProc[1].sdNotify.socket

\* C35: the notify socket is dialed at most once per process, by the probe
\* of serviceMain and hence before any chroot; when that first attempt fails
\* (NOTIFY_SOCKET unset or a dial error) it is never retried, the systemd
\* flag stays false and no datagram is sent for the rest of the run.
C35_DialOnce ==
  /\ [](/\ mainProc[1].sdNotify.dials <= 1
        /\ FirstDialFailed =>
             /\ ~info.systemd
             /\ mainProc[1].sdNotify.sent = 0
             /\ ~sdReady /\ sdStatus = "")
  /\ [][/\ mainProc'[1].sdNotify.dials # mainProc[1].sdNotify.dials =>
             /\ mainProc[1].pc = "init" /\ ~mainProc[1].payload
             /\ w.anchor = PathRoot /\ ~dropped
        /\ FirstDialFailed =>
             /\ mainProc'[1].sdNotify = mainProc[1].sdNotify
             /\ ~info'.systemd]_vars

\* The first dial failed on a dead socket, the socket came to life, and the
\* supervisor has published a status and the started flag since, in a chroot.
C35_Witness ==
  /\ FirstDialFailed /\ mainProc[1].sdNotify.dials = 1
  /\ mainProc[1].notifyEnv = "live"
  /\ started /\ procTitle # "" /\ w.anchor = PathEmpty

\* C35_WitnessUnset: the same with NOTIFY_SOCKET unset at the probe.
C35_WitnessUnset ==
  /\ FirstDialFailed /\ mainProc[1].sdNotify.dials = 0
  /\ mainProc[1].notifyEnv = "live"
  /\ started /\ procTitle # ""

\* C35_WitnessLive: the probe dialed a live socket and two datagrams followed.
C35_WitnessLive ==
  /\ mainProc[1].sdNotify.socket /\ mainProc[1].sdNotify.dials = 1
  /\ mainProc[1].sdNotify.sent = 3 /\ sdReady /\ dropped

\* ------------------------------------------------------------------------
\* SetStarted after the stop signal

\* On UNIX the stop signal has fired and a started event waits in
\* startedChan with started not yet latched.
StartedPending ==
  platform = "unix" /\ stopping /\ ~started /\ startedChan > 0

\* C36 as stated: once stop has fired and the payload has called SetStarted,
\* the supervisor latches started (or the process panics).
C36_AlwaysLatches == StartedPending ~> (started \/ crashed # "")

\* C36, amended: SetStarted stays legal and effective after the stop signal.
\* A started event pending while stopping is latched, unless the supervisor
\* receives the payload's result or the process ends first; the latch happens
\* in the started case, stopping or not, and publishes (READY=1 under
\* systemd); started is latched once, a later started event publishes
\* nothing, and no call made after DropPrivileges panics.
C36_StartedAfterStop ==
  /\ StartedPending ~> (started \/ supPc = "exited" \/ ~Alive)
  /\ [][platform = "unix" =>
          /\ started => started'
          /\ (~started /\ started') =>
               /\ supPc = "started"
               /\ info.systemd => sdReady'
               /\ status # "" => procTitle' = status
          /\ (supPc = "started" /\ supPc' = "select" /\ ~started) => started'
          /\ (supPc = "started" /\ supPc' = "select" /\ started) =>
               UNCHANGED <<procTitle, sdReady, sdStatus>>
          /\ (dropped /\ crashed = "") => crashed' = ""]_vars

\* Under systemd the supervisor has closed the stop channel and is in the
\* started case with started not yet latched;
\* C36_WitnessLatched: started is latched and READY=1 sent while stopping;
\* C36_WitnessRepeat: a second started event is being handled.
C36_Witness ==
  /\ platform = "unix" /\ info.systemd /\ dropped
  /\ stopping /\ stopChan = "closed" /\ ~started /\ supPc = "started"

C36_WitnessLatched ==
  /\ platform = "unix" /\ info.systemd /\ stopping /\ started /\ sdReady
  /\ payloadPc = "running"

C36_WitnessRepeat ==
  platform = "unix" /\ started /\ supPc = "started" /\ stopping

\* ------------------------------------------------------------------------
\* Repeated SetStarted on Windows

\* The payload has completed SetStarted more than once.
SetStartedRepeated == Len(runLog) >= 2

\* C37: on the Windows SCM path a payload that calls SetStarted more than
\* once always makes the supervisor panic with "must not call SetStarted()
\* more than once": no run in which it did so ends with the loop left
\* through doneChan or the process exited without that panic.
C37_RepeatAlwaysPanics ==
  (SetStartedRepeated /\ (supPc = "exited" \/ exitCode # -1)) =>
    crashed = "must not call SetStarted() more than once"

\* Two calls were made before Execute took the first event, the one queued
\* event has been latched, the channel is empty and the payload has returned.
C37_Coalesced ==
  /\ SetStartedRepeated /\ started /\ startedChan = 0 /\ crashed = ""
  /\ supPc = "exited"

\* The panic does happen when Execute receives a second event.
C37_Panicked ==
  SetStartedRepeated /\ crashed = "must not call SetStarted() more than once"

\* ------------------------------------------------------------------------
\* The retry loop of openPIDFile

\* p is inside the loop of openPIDFile.
InOpenLoop(p) == proc[p].pc \in {"create", "open", "lock", "stat"}

\* p holds nothing of the PID file: no descriptor and no lock.
HoldsNothing(p) == proc[p].f = 0 /\ \A i \in Inodes : fsLock[i] # p

\* C38: the retry loop terminates: with the other processes creating,
\* locking and unlinking the path finitely often, openPIDFile returns a
\* handle that passed the inode check or an error; at the start of every
\* iteration, and after an error, the process holds no descriptor and no
\* lock, so a retry has closed what the previous iteration opened.
C38_OpenLoop ==
  /\ \A p \in Procs :
       InOpenLoop(p) ~>
         \/ proc[p].pc = "write" /\ proc[p].f = fsPath /\ fsLock[proc[p].f] = p
         \/ proc[p].pc = "idle" /\ proc[p].err # ""
  /\ [](\A p \in Procs :
          /\ proc[p].pc \in {"create", "open"} => HoldsNothing(p)
          /\ (proc[p].pc = "idle" /\ proc[p].pidFile = 0) => HoldsNothing(p))
  /\ [][\A p \in Procs :
          (proc[p].pc = "stat" /\ proc'[p].pc = "create") =>
            /\ fsPath # proc[p].f
            /\ fsLock[proc[p].f] = p /\ fsLock'[proc[p].f] = 0]_vars

\* A process has opened and locked a descriptor and the path has vanished
\* since: the iteration is about to close it and start over.
C38_Witness ==
  \E p \in Procs :
    /\ proc[p].pc = "stat" /\ fsLock[proc[p].f] = p /\ fsPath = 0
    /\ \E q \in Procs \ {p} : proc[q].closes > 0

\* C38_WitnessMismatch: the path names another inode by now.
C38_WitnessMismatch ==
  \E p \in Procs :
    proc[p].pc = "stat" /\ fsPath # 0 /\ fsPath # proc[p].f

\* ------------------------------------------------------------------------
\* Shutdown

\* RunFunc has returned and its goroutine is sending the result on doneChan.
ResultOffered == Alive /\ payloadPc = "sending"

\* C39: the supervisor and the payload never deadlock on shutdown: once
\* RunFunc has returned, the supervisor can always take a step until it has
\* received the result, and it eventually receives it and leaves the loop
\* (or the process panics), whatever signals or started events are pending;
\* the error it leaves the loop with is the one RunFunc returned.
C39_NoShutdownDeadlock ==
  /\ ResultOffered ~> (supPc = "exited" \/ crashed # "")
  /\ [](ResultOffered => ENABLED (SupSelect \/ SupHandle))
  /\ [](supPc = "exited" => (payloadPc = "done" /\ exitErr = retErr))

\* The loop has ended on the payload's error with a signal and a started
\* event still queued;
\* C39_WitnessWindows: the same under the SCM with a request pending.
C39_Witness ==
  /\ platform = "unix" /\ supPc = "exited" /\ exitErr # ""
  /\ sig # <<>> /\ startedChan > 0

C39_WitnessWindows ==
  /\ platform = "windows" /\ supPc = "exited"
  /\ sig # <<>> /\ startedChan > 0

====
